---------------------------- MODULE Spec2Model ----------------------------
(***************************************************************************)
(* Model of the talktor streaming core:                                    *)
(*   - services/audio/streaming_audio_service.py (AudioBuffer and the      *)
(*     voice-activity segmenter of StreamingAudioService), under SpecSeg;  *)
(*   - routers/enhanced_conversation_router.py (the per-utterance turn of   *)
(*     EnhancedConversationManager), under SpecTurn.                       *)
(* Time is counted in half seconds, audio in bytes and 16-bit samples.     *)
(***************************************************************************)
EXTENDS Integers, Sequences, FiniteSets, TLC

(***************************************************************************)
(* Bounds of the model.                                                    *)
(***************************************************************************)
MaxTime == 5
MaxBuf == 3
MaxTurns == 1
MaxAlerts == 1
MaxSoloTurns == 2
MaxRuns == 3
MaxV1Turns == 1

(***************************************************************************)
(* Program constants (StreamingAudioService.__init__).                     *)
(***************************************************************************)
silence_duration == 3
min_audio_length == 1
max_audio_length == 60
sample_rate == 16000
None == -1

\* vad_threshold = 0.01 and the 16-bit full scale 32767, as a comparison of
\* integers: level > 0.01 with level = min(rms / 32767, 1).
HasSpeechAnyLevel(audio_level) == audio_level > 0
HasSpeech(audio_level) == audio_level * 100 > 32767

Min2(a, b) == IF a < b THEN a ELSE b

\* _calculate_audio_level: the numerator of the level over 32767.  An empty
\* chunk has level 0; a chunk of odd length cannot be viewed as int16
\* (np.frombuffer raises, the handler returns 0.0).
CalculateAudioLevel(chunk) ==
    IF chunk.bytes % 2 = 1 THEN 0
    ELSE IF chunk.bytes \div 2 = 0 THEN 0
    ELSE Min2(chunk.rms, 32767)

(***************************************************************************)
(* AudioBuffer                                                             *)
(***************************************************************************)
EmptyBuffer == [chunks |-> <<>>, total_samples |-> 0]

\* int(max_duration * sample_rate), max_duration in half seconds
MaxSamples(max_duration) == (max_duration * sample_rate) \div 2

RECURSIVE EvictNewest(_, _)
EvictNewest(buf, max_samples) ==
    IF buf.total_samples > max_samples /\ buf.chunks /= <<>>
    THEN EvictNewest([chunks |-> SubSeq(buf.chunks, 1, Len(buf.chunks) - 1),
                      total_samples |-> buf.total_samples
                                         - (buf.chunks[Len(buf.chunks)] \div 2)],
                     max_samples)
    ELSE buf

\* the while loop of add_chunk: pop(0) until the buffer fits
RECURSIVE Evict(_, _)
Evict(buf, max_samples) ==
    IF buf.total_samples > max_samples /\ buf.chunks /= <<>>
    THEN Evict([chunks |-> Tail(buf.chunks),
                total_samples |-> buf.total_samples - (Head(buf.chunks) \div 2)],
               max_samples)
    ELSE buf

AddChunk(buf, nbytes) ==
    Evict([chunks |-> Append(buf.chunks, nbytes),
           total_samples |-> buf.total_samples + (nbytes \div 2)],
          MaxSamples(max_audio_length))

\* get_duration() >= seconds, both sides multiplied by 2 * sample_rate
DurationAtLeast(buf, half_seconds) ==
    2 * buf.total_samples >= half_seconds * sample_rate

\* to_wav: empty bytes for an empty buffer, a WAV file otherwise
ToWav(buf) == IF buf.chunks = <<>> THEN "" ELSE "wav"



(***************************************************************************)
(* Strings that are matched by prefix are sequences of characters and      *)
(* tokens: conn_id = f"{session_id}_{role}".                               *)
(***************************************************************************)
Sockets == {"w1", "w2"}
SessionIds == {<<"a">>, <<"a", "b">>}
Roles == {"doctor", "patient"}
Languages == {"en", "es"}
Texts == {"", "hola"}

ConnId(session_id, role) == session_id \o <<"_", role>>

\* a prefix test that looks at the first character only
StartsWithFirst(str, prefix) ==
    prefix = <<>> \/ (str /= <<>> /\ Head(str) = Head(prefix))

\* str.startswith
StartsWith(str, prefix) ==
    /\ Len(prefix) <= Len(str)
    /\ SubSeq(str, 1, Len(prefix)) = prefix

VARIABLES
    now,            \* time.time(), in half seconds
    pc,             \* position of the connection handler of each websocket
    sess,           \* path parameter session_id of each websocket
    role,           \* path parameter role of each websocket
    ws_open,        \* the client end of the websocket is connected
    active_connections, \* of the manager created for each websocket
    started,        \* keys of audio_buffers / processing_states
    buffer,         \* audio_buffers[session_id]
    state,          \* processing_states[session_id]
    audio_chunk,    \* local audio_chunk of process_audio_chunk
    has_speech,     \* local has_speech
    current_time,   \* local current_time
    elapsed,        \* local silence_duration (None while unbound)
    buffer_duration,\* local buffer_duration, in samples (None while unbound)
    ret,            \* value returned by process_audio_chunk
    submitted,      \* transcription requests issued by the current call
    turn,           \* locals of the turn a handler is running
    turn_log,       \* what each turn was given, by turn number
    tasks,          \* summary tasks created and not yet run
    sent,           \* messages each manager has delivered, in order
    cache,          \* ExternalMedicalAPIClient.cache, its keys
    runs,           \* candidate generations made so far: text and result
    scored,         \* the last confidence computation: inputs and result
    specialties,    \* SpecialtyRegistry._specialties, in registration order
    resolved,       \* the last process_medical_text call: inputs and route
    v1_connections, \* active_connections of the /api/v1 conversation_manager
    active_sessions,\* active_sessions of that manager, by session id
    issued,         \* the session ids uuid4 has produced
    v1_sent,        \* messages that manager has delivered, in order
    v1_call,        \* the broadcast each /api/v1 handler is in
    v1_turns        \* /api/v1 turns started

connVars == <<pc, sess, role, ws_open, active_connections>>
sessionVars == <<started, buffer, state>>
locals == <<audio_chunk, has_speech, current_time, elapsed, buffer_duration>>
callVars == <<locals, ret, submitted>>
turnVars == <<turn, turn_log, tasks, sent>>
v1Vars == <<v1_connections, active_sessions, issued, v1_sent, v1_call, v1_turns>>
medVars == <<cache, runs, scored, specialties, resolved, v1Vars>>
vars == <<now, connVars, sessionVars, callVars, turnVars, medVars>>

\* StreamingState()
NewState == [is_recording |-> FALSE, is_processing |-> FALSE,
             last_speech_time |-> None]

NoResult == [kind |-> "none", text |-> "", language |-> "", samples |-> 0]
ErrorResult == [kind |-> "error", text |-> "", language |-> "unknown",
                samples |-> 0]
SttResult(text, language, buf) ==
    [kind |-> "stt", text |-> text, language |-> language,
     samples |-> buf.total_samples]

\* truth value of an Optional[float]
Truthy(t) == t /= None /\ t /= 0

\* lines 225-227 and 233-235: is_recording = False; last_speech_time = None
KeepRecording(st) == [st EXCEPT !.last_speech_time = None]
ResetRecording(st) ==
    [st EXCEPT !.is_recording = FALSE, !.last_speech_time = None]

\* silence_duration >= self.silence_duration
SilenceElapsedLate(cur, last) == cur - last > silence_duration
SilenceElapsed(cur, last) == cur - last >= silence_duration

\* the chunks a client can send: decodable or not, any length, any level
ChunkBytes == {0, 3, 8000, 16000, 480000, 992000}
RmsLevels == {327, 328}
ChunkInputs ==
    [b64 : {"ok"}, bytes : ChunkBytes, rms : RmsLevels]
    \cup {[b64 |-> "bad", bytes |-> 0, rms |-> 0],
          [b64 |-> "empty", bytes |-> 0, rms |-> 0]}
NoChunk == [bytes |-> 0, rms |-> 0]

\* no confidence has been computed yet
NoScore == [path |-> "none", confidence |-> 0]

\* process_medical_text has not been called yet
NoResolution ==
    [text |-> <<>>, requested |-> "none", patient_profile |-> "none",
     specialty |-> "none", handled_by |-> "none", safety_flags |-> <<>>]

\* OBGYNSpecialty.keywords as seen on the class: declared with @property, so
\* the class attribute is a property object and not a list
OBGYNKeywordsAttribute == "property"

\* _register_available_specialties, run at import: len(OBGYNSpecialty.keywords)
\* on line 163 raises TypeError for a property object, the outer except logs
\* it, and register_specialty on line 185 is never reached
RegisterAvailableSpecialties ==
    IF OBGYNKeywordsAttribute = "list" THEN <<"obgyn">> ELSE <<>>

\* no /api/v1 broadcast in progress
NoCall == [session_id |-> <<>>, stage |-> 0, pending |-> <<>>]

NoTurn == [id |-> 0, text |-> "", language |-> "", stage |-> 0,
           alerts |-> 0, alerts_sent |-> 0, translated_text |-> <<>>,
           tts |-> FALSE]

Init ==
    /\ now = 1
    /\ pc = [w \in Sockets |-> "new"]
    /\ sess = [w \in Sockets |-> <<>>]
    /\ role = [w \in Sockets |-> ""]
    /\ ws_open = [w \in Sockets |-> FALSE]
    /\ active_connections = [w \in Sockets |-> {}]
    /\ started = {}
    /\ buffer = [s \in SessionIds |-> EmptyBuffer]
    /\ state = [s \in SessionIds |-> NewState]
    /\ audio_chunk = [w \in Sockets |-> NoChunk]
    /\ has_speech = [w \in Sockets |-> FALSE]
    /\ current_time = [w \in Sockets |-> None]
    /\ elapsed = [w \in Sockets |-> None]
    /\ buffer_duration = [w \in Sockets |-> None]
    /\ ret = [w \in Sockets |-> NoResult]
    /\ submitted = [w \in Sockets |-> 0]
    /\ turn = [w \in Sockets |-> NoTurn]
    /\ turn_log = <<>>
    /\ tasks = {}
    /\ sent = [m \in Sockets |-> <<>>]
    /\ cache = {}
    /\ runs = <<>>
    /\ scored = NoScore
    /\ specialties = RegisterAvailableSpecialties
    /\ resolved = NoResolution
    /\ v1_connections = <<>>
    /\ active_sessions = [s \in {} |-> [last_activity |-> 0]]
    /\ issued = {}
    /\ v1_sent = <<>>
    /\ v1_call = [w \in Sockets |-> NoCall]
    /\ v1_turns = 0

Tick ==
    /\ now < MaxTime
    /\ now' = now + 1
    /\ UNCHANGED <<connVars, sessionVars, callVars, turnVars, medVars>>

(***************************************************************************)
(* Delivery of messages                                                    *)
(***************************************************************************)
MessageOfPreviousTurn(type, t, session_id, speaker) ==
    [to |-> "", message_type |-> type,
     turn |-> IF type = "medical_alert" /\ t > 1 THEN t - 1 ELSE t,
     session_id |-> session_id, speaker |-> speaker, fallback |-> FALSE,
     translated_text |-> <<>>]
Message(type, t, session_id, speaker) ==
    [to |-> "", message_type |-> type, turn |-> t, session_id |-> session_id,
     speaker |-> speaker, fallback |-> FALSE, translated_text |-> <<>>]

\* websocket.send_json: delivered while the client is connected, raises
\* (and the caller logs it) afterwards
SendJson(log, w, message) ==
    IF ws_open[w] THEN Append(log, [message EXCEPT !.to = w]) ELSE log

\* _broadcast_to_session: the connections of this manager whose key starts
\* with session_id, each sent to inside its own try/except
BroadcastTargets(m, session_id) ==
    {e \in active_connections[m] : StartsWith(e[1], session_id)}

RECURSIVE SendAll(_, _, _)
SendAll(log, targets, message) ==
    IF targets = {} THEN log
    ELSE LET e == CHOOSE x \in targets : TRUE
         IN SendAll(SendJson(log, e[2], message), targets \ {e}, message)

BroadcastToSession(log, m, session_id, message) ==
    [log EXCEPT ![m] = SendAll(@, BroadcastTargets(m, session_id), message)]

(***************************************************************************)
(* enhanced_websocket_endpoint / handle_websocket_connection               *)
(***************************************************************************)
\* a new EnhancedConversationManager is created for the websocket; it
\* accepts, registers the connection under conn_id, sends the welcome
\* message and starts the streaming session of session_id
HandleWebsocketConnection(w, session_id, r) ==
    /\ pc[w] = "new"
    /\ pc' = [pc EXCEPT ![w] = "idle"]
    /\ sess' = [sess EXCEPT ![w] = session_id]
    /\ role' = [role EXCEPT ![w] = r]
    /\ ws_open' = [ws_open EXCEPT ![w] = TRUE]
    /\ active_connections' =
          [active_connections EXCEPT ![w] = {<<ConnId(session_id, r), w>>}]
    /\ sent' = [sent EXCEPT
                   ![w] = Append(@, [Message("system_status", 0, session_id,
                                             "system") EXCEPT !.to = w])]
    /\ started' = started \cup {session_id}
    /\ buffer' = [buffer EXCEPT ![session_id] = EmptyBuffer]
    /\ state' = [state EXCEPT ![session_id] = NewState]
    /\ UNCHANGED <<medVars, now, callVars, turn, turn_log, tasks>>

\* the client goes away; the handler notices at its next receive
ClientClose(w) ==
    /\ pc[w] \notin {"new", "closed"}
    /\ ws_open[w]
    /\ ws_open' = [ws_open EXCEPT ![w] = FALSE]
    /\ UNCHANGED <<medVars, now, pc, sess, role, active_connections, sessionVars,
                   callVars, turnVars>>

\* WebSocketDisconnect out of iter_json, then the finally block:
\* active_connections.pop(connection_id); cleanup_session(session_id)
Disconnect(w) ==
    /\ pc[w] = "idle"
    /\ ~ws_open[w]
    /\ pc' = [pc EXCEPT ![w] = "closed"]
    /\ active_connections' =
          [active_connections EXCEPT
              ![w] = {e \in @ : e[1] /= ConnId(sess[w], role[w])}]
    /\ started' = started \ {sess[w]}
    /\ UNCHANGED <<medVars, now, sess, role, ws_open, buffer, state, callVars,
                   turnVars>>

(***************************************************************************)
(* StreamingAudioService.process_audio_chunk, called by                    *)
(* _handle_audio_chunk_stream for each audio_chunk_stream message          *)
(***************************************************************************)
Return(w, result) ==
    /\ ret' = [ret EXCEPT ![w] = result]
    /\ pc' = [pc EXCEPT ![w] = "returned"]

ReceiveChunkAborting(w, c) ==
    /\ pc[w] = "idle"
    /\ ws_open[w]
    /\ (HasSpeech(CalculateAudioLevel(c))
          => Len(buffer[sess[w]].chunks) < MaxBuf)
    /\ submitted' = [submitted EXCEPT ![w] = 0]
    /\ IF c.b64 = "empty"
       THEN UNCHANGED <<pc, ret, audio_chunk, has_speech, current_time,
                        buffer, state>>
       ELSE IF sess[w] \notin started
       THEN /\ Return(w, NoResult)
            /\ UNCHANGED <<audio_chunk, has_speech, current_time, buffer,
                           state>>
       ELSE IF c.b64 = "bad"
       THEN /\ Return(w, NoResult)
            /\ buffer' = [buffer EXCEPT ![sess[w]] = EmptyBuffer]
            /\ state' = [state EXCEPT ![sess[w]] = ResetRecording(@)]
            /\ UNCHANGED <<audio_chunk, has_speech, current_time>>
       ELSE /\ audio_chunk' = [audio_chunk EXCEPT
                                 ![w] = [bytes |-> c.bytes, rms |-> c.rms]]
            /\ has_speech' = [has_speech EXCEPT
                                ![w] = HasSpeech(CalculateAudioLevel(c))]
            /\ current_time' = [current_time EXCEPT ![w] = now]
            /\ pc' = [pc EXCEPT ![w] = "status"]
            /\ UNCHANGED <<ret, buffer, state>>
    /\ UNCHANGED <<medVars, now, sess, role, ws_open, active_connections,
                   started, elapsed, buffer_duration, turnVars>>

\* _handle_audio_chunk_stream up to the first suspension of
\* process_audio_chunk (the await of _send_audio_status, line 193)
ReceiveChunk(w, c) ==
    /\ pc[w] = "idle"
    /\ ws_open[w]
    /\ (HasSpeech(CalculateAudioLevel(c))
          => Len(buffer[sess[w]].chunks) < MaxBuf)
    /\ submitted' = [submitted EXCEPT ![w] = 0]
    /\ IF c.b64 = "empty"
       THEN \* "not audio_data": the router returns without calling
            /\ UNCHANGED <<pc, ret, audio_chunk, has_speech, current_time>>
       ELSE IF sess[w] \notin started \/ c.b64 = "bad"
       THEN /\ Return(w, NoResult)
            /\ UNCHANGED <<audio_chunk, has_speech, current_time>>
       ELSE /\ audio_chunk' = [audio_chunk EXCEPT
                                 ![w] = [bytes |-> c.bytes, rms |-> c.rms]]
            /\ has_speech' = [has_speech EXCEPT
                                ![w] = HasSpeech(CalculateAudioLevel(c))]
            /\ current_time' = [current_time EXCEPT ![w] = now]
            /\ pc' = [pc EXCEPT ![w] = "status"]
            /\ UNCHANGED ret
    /\ UNCHANGED <<medVars, now, sess, role, ws_open, active_connections, sessionVars,
                   elapsed, buffer_duration, turnVars>>

\* process_audio_chunk, lines 200-237
AfterStatus(w) ==
    LET s == sess[w] IN
    /\ pc[w] = "status"
    /\ IF has_speech[w]
       THEN /\ state' = [state EXCEPT
                           ![s] = [@ EXCEPT
                                     !.last_speech_time = current_time[w],
                                     !.is_recording = TRUE]]
            /\ buffer' = [buffer EXCEPT
                            ![s] = AddChunk(@, audio_chunk[w].bytes)]
            /\ Return(w, NoResult)
            /\ UNCHANGED <<elapsed, buffer_duration>>
       ELSE IF state[s].is_recording /\ Truthy(state[s].last_speech_time)
       THEN /\ elapsed' = [elapsed EXCEPT
                             ![w] = current_time[w]
                                      - state[s].last_speech_time]
            /\ IF SilenceElapsed(current_time[w], state[s].last_speech_time)
               THEN /\ buffer_duration' = [buffer_duration EXCEPT
                                             ![w] = buffer[s].total_samples]
                    /\ IF DurationAtLeast(buffer[s], min_audio_length)
                          /\ s \notin started
                       THEN \* processing_states[session_id] raises KeyError
                            \* (line 256) into the except of line 239
                            /\ Return(w, ErrorResult)
                            /\ UNCHANGED <<buffer, state>>
                       ELSE IF DurationAtLeast(buffer[s], min_audio_length)
                       THEN \* _process_audio_buffer up to its first await
                            /\ state' = [state EXCEPT
                                           ![s].is_processing = TRUE]
                            /\ pc' = [pc EXCEPT ![w] = "proc_status"]
                            /\ UNCHANGED <<buffer, ret>>
                       ELSE /\ buffer' = [buffer EXCEPT ![s] = EmptyBuffer]
                            /\ state' = [state EXCEPT
                                           ![s] = ResetRecording(@)]
                            /\ Return(w, NoResult)
               ELSE /\ Return(w, NoResult)
                    /\ UNCHANGED <<buffer, state, buffer_duration>>
       ELSE /\ Return(w, NoResult)
            /\ UNCHANGED <<buffer, state, elapsed, buffer_duration>>
    /\ UNCHANGED <<medVars, now, sess, role, ws_open, active_connections, started,
                   audio_chunk, has_speech, current_time, submitted,
                   turnVars>>

\* _process_audio_buffer after the status await: to_wav, then either the
\* transcription request or the error result
ProcStatus(w) ==
    LET s == sess[w] IN
    /\ pc[w] = "proc_status"
    /\ IF ToWav(buffer[s]) = ""
       THEN /\ buffer' = [buffer EXCEPT ![s] = EmptyBuffer]
            /\ state' = [state EXCEPT
                           ![s] = ResetRecording(
                                     [@ EXCEPT !.is_processing = FALSE])]
            /\ Return(w, ErrorResult)
            /\ UNCHANGED submitted
       ELSE /\ submitted' = [submitted EXCEPT ![w] = @ + 1]
            /\ pc' = [pc EXCEPT ![w] = "transcribing"]
            /\ UNCHANGED <<buffer, state, ret>>
    /\ UNCHANGED <<medVars, now, sess, role, ws_open, active_connections, started,
                   locals, turnVars>>

\* a transcription that returns without the finally block of line 309
TranscribedStillProcessing(w, text, language) ==
    LET s == sess[w] IN
    /\ pc[w] = "transcribing"
    /\ text /= "" => Len(turn_log) < MaxTurns
    /\ buffer' = [buffer EXCEPT ![s] = EmptyBuffer]
    /\ state' = [state EXCEPT ![s] = ResetRecording(@)]
    /\ Return(w, SttResult(text, language, buffer[s]))
    /\ UNCHANGED <<medVars, now, sess, role, ws_open, active_connections, started,
                   locals, submitted, turnVars>>

\* the transcriber answers (its own failures come back as empty text);
\* lines 283-310 and 224-229
Transcribed(w, text, language) ==
    LET s == sess[w] IN
    /\ pc[w] = "transcribing"
    /\ text /= "" => Len(turn_log) < MaxTurns
    /\ buffer' = [buffer EXCEPT ![s] = EmptyBuffer]
    /\ state' = [state EXCEPT
                   ![s] = ResetRecording([@ EXCEPT !.is_processing = FALSE])]
    /\ Return(w, SttResult(text, language, buffer[s]))
    /\ UNCHANGED <<medVars, now, sess, role, ws_open, active_connections, started,
                   locals, submitted, turnVars>>

(***************************************************************************)
(* EnhancedConversationManager._process_streaming_transcription            *)
(***************************************************************************)
\* the statements of the turn, in program order
TurnOrderAlertsLate ==
    <<"transcript", "medical", "translate", "alerts", "tts", "summary">>
TurnOrder ==
    <<"transcript", "medical", "alerts", "translate", "tts", "summary">>

Stage(w) == IF pc[w] = "turn" THEN TurnOrder[turn[w].stage] ELSE "none"

\* _get_target_language
NoLanguage == "None"
GetTargetLanguage(speaker_role) ==
    IF speaker_role = "doctor" THEN "es"
    ELSE IF speaker_role = "patient" THEN "en"
    ELSE NoLanguage

\* _get_opposite_role
GetOppositeRole(r) == IF r = "doctor" THEN "patient" ELSE "doctor"

\* what process_medical_text hands to the turn: it raises (DatabaseError out
\* of store_extraction_attempt), or returns a result whose safety_alerts and
\* obgyn_context.safety_flags together hold `alerts` entries
MedicalOutcomes ==
    {[raised |-> TRUE, alerts |-> 0]}
    \cup [raised : {FALSE}, alerts : 0..MaxAlerts]

\* what GoogleTranslator.translate does with the text: raises, or returns
\* another text, the same text, or nothing
TranslatorOutcomes == {"raise", "other", "same", "empty"}

\* TranslationService.translate_with_medical_context: every exception of
\* the translator is caught and a result marked in its text is returned
TranslateWithMedicalContext(text, outcome) ==
    IF outcome = "raise"
    THEN [raised |-> FALSE,
          enhanced_translation |-> <<"[TRANSLATION FAILED]", text>>]
    ELSE [raised |-> FALSE,
          enhanced_translation |->
              IF outcome = "other" THEN <<"translation of", text>>
              ELSE IF outcome = "same" THEN <<text>>
              ELSE <<>>]

\* lines 235-243: enhanced or standard or translated_text or text
TranslatedText(result, text) ==
    IF result.enhanced_translation /= <<>>
    THEN result.enhanced_translation ELSE <<text>>

\* lines 281-287: fallback_translations.get(text.lower(), text)
FallbackText(text) ==
    IF text = "estoy embarazada" THEN <<"I am pregnant">>
    ELSE IF text = "tomando ibuprofeno" THEN <<"taking ibuprofen">>
    ELSE IF text = "estoy embarazada tomando ibuprofeno"
    THEN <<"I am pregnant taking ibuprofen">>
    ELSE <<text>>

TurnMessage(w, type) ==
    Message(type, turn[w].id, sess[w],
            IF type = "medical_alert" THEN "system" ELSE role[w])

\* the turn starts: its locals, and its entry in the record of turns
BeginTurn(w, text, language) ==
    /\ pc' = [pc EXCEPT ![w] = "turn"]
    /\ turn' = [turn EXCEPT ![w] = [NoTurn EXCEPT !.id = Len(turn_log) + 1,
                                                  !.text = text,
                                                  !.language = language,
                                                  !.stage = 1]]
    /\ turn_log' = Append(turn_log,
                          [ws |-> w, language |-> language,
                           audience |-> {v \in Sockets :
                                           /\ pc[v] \notin {"new", "closed"}
                                           /\ ws_open[v]
                                           /\ sess[v] = sess[w]},
                           medical |-> "pending", alerts |-> 0,
                           translator_raised |-> FALSE, done |-> FALSE])

\* to the next statement of the turn, or out of it after the last
Proceed(w, t, log) ==
    IF t.stage = Len(TurnOrder)
    THEN /\ pc' = [pc EXCEPT ![w] = "idle"]
         /\ turn' = [turn EXCEPT ![w] = NoTurn]
         /\ turn_log' = [log EXCEPT ![t.id].done = TRUE]
    ELSE /\ pc' = pc
         /\ turn' = [turn EXCEPT ![w] = [t EXCEPT !.stage = @ + 1]]
         /\ turn_log' = log

\* _handle_audio_chunk_stream, lines 163-169: a result with text starts a
\* turn; otherwise the handler waits for the next message
Consume(w) ==
    /\ pc[w] = "returned"
    /\ IF ret[w].kind /= "none" /\ ret[w].text /= ""
       THEN BeginTurn(w, ret[w].text, ret[w].language)
       ELSE /\ pc' = [pc EXCEPT ![w] = "idle"]
            /\ UNCHANGED <<turn, turn_log>>
    /\ ret' = [ret EXCEPT ![w] = NoResult]
    /\ audio_chunk' = [audio_chunk EXCEPT ![w] = NoChunk]
    /\ has_speech' = [has_speech EXCEPT ![w] = FALSE]
    /\ current_time' = [current_time EXCEPT ![w] = None]
    /\ elapsed' = [elapsed EXCEPT ![w] = None]
    /\ buffer_duration' = [buffer_duration EXCEPT ![w] = None]
    /\ UNCHANGED <<medVars, now, sess, role, ws_open, active_connections, sessionVars,
                   submitted, tasks, sent>>

\* _handle_transcription_message: a "transcription" message with text
ReceiveTranscriptionWithin(w, text, language, max_turns) ==
    /\ pc[w] = "idle"
    /\ ws_open[w]
    /\ Len(turn_log) < max_turns
    /\ IF text = ""
       THEN UNCHANGED <<pc, turn, turn_log>>   \* "if not text: return"
       ELSE BeginTurn(w, text, language)
    /\ UNCHANGED <<medVars, now, sess, role, ws_open, active_connections, sessionVars,
                   callVars, tasks, sent>>

ReceiveTranscription(w, text, language) ==
    ReceiveTranscriptionWithin(w, text, language, MaxTurns)

\* 1. _broadcast_streaming_transcription
TurnTranscript(w) ==
    /\ Stage(w) = "transcript"
    /\ sent' = BroadcastToSession(sent, w, sess[w],
                                  TurnMessage(w, "streaming_transcription"))
    /\ Proceed(w, turn[w], turn_log)
    /\ UNCHANGED <<medVars, now, sess, role, ws_open, active_connections, sessionVars,
                   callVars, tasks>>

\* 2. process_medical_text; an exception leaves the turn through the outer
\* except of lines 314-317
TurnMedical(w, outcome) ==
    /\ Stage(w) = "medical"
    /\ IF outcome.raised
       THEN /\ pc' = [pc EXCEPT ![w] = "idle"]
            /\ turn' = [turn EXCEPT ![w] = NoTurn]
            /\ turn_log' = [turn_log EXCEPT ![turn[w].id].medical = "raise",
                                            ![turn[w].id].done = TRUE]
       ELSE Proceed(w, [turn[w] EXCEPT !.alerts = outcome.alerts],
                    [turn_log EXCEPT ![turn[w].id].medical = "ok",
                                     ![turn[w].id].alerts = outcome.alerts])
    /\ UNCHANGED <<medVars, now, sess, role, ws_open, active_connections, sessionVars,
                   callVars, tasks, sent>>

\* 3. one _broadcast_individual_medical_alert of the loop over all_alerts,
\* or the end of the loop
TurnAlerts(w) ==
    /\ Stage(w) = "alerts"
    /\ IF turn[w].alerts_sent < turn[w].alerts
       THEN /\ sent' = BroadcastToSession(sent, w, sess[w],
                                          TurnMessage(w, "medical_alert"))
            /\ turn' = [turn EXCEPT ![w].alerts_sent = @ + 1]
            /\ UNCHANGED <<pc, turn_log>>
       ELSE /\ Proceed(w, turn[w], turn_log)
            /\ UNCHANGED sent
    /\ UNCHANGED <<medVars, now, sess, role, ws_open, active_connections, sessionVars,
                   callVars, tasks>>

\* 4.-6. target language, translation and its broadcast, or the fallback
\* message of the except branch
TurnTranslate(w, outcome) ==
    LET target_language == GetTargetLanguage(role[w])
        result == TranslateWithMedicalContext(turn[w].text, outcome)
        translated_text == TranslatedText(result, turn[w].text)
        log == [turn_log EXCEPT
                  ![turn[w].id].translator_raised = (outcome = "raise")]
    IN
    /\ Stage(w) = "translate"
    /\ IF target_language /= NoLanguage /\ target_language /= turn[w].language
       THEN IF result.raised
            THEN /\ sent' = BroadcastToSession(sent, w, sess[w],
                              [TurnMessage(w, "translation") EXCEPT
                                  !.fallback = TRUE,
                                  !.translated_text =
                                      FallbackText(turn[w].text)])
                 /\ Proceed(w, turn[w], log)
            ELSE /\ sent' = BroadcastToSession(sent, w, sess[w],
                              [TurnMessage(w, "translation") EXCEPT
                                  !.translated_text = translated_text])
                 /\ Proceed(w, [turn[w] EXCEPT
                                  !.translated_text = translated_text,
                                  !.tts = /\ translated_text /= <<>>
                                          /\ translated_text /= <<turn[w].text>>],
                            log)
       ELSE /\ outcome = "same"      \* the translator is not called
            /\ Proceed(w, turn[w], turn_log)
            /\ UNCHANGED sent
    /\ UNCHANGED <<medVars, now, sess, role, ws_open, active_connections, sessionVars,
                   callVars, tasks>>

\* 7. _stream_tts_response: to the connection registered in this manager
\* under the opposite role, if there is one
TurnTts(w, nchunks) ==
    LET key == ConnId(sess[w], GetOppositeRole(role[w]))
        targets == {e \in active_connections[w] : e[1] = key}
    IN
    /\ Stage(w) = "tts"
    /\ IF turn[w].tts /\ targets /= {} /\ nchunks > 0
       THEN sent' = [sent EXCEPT
                       ![w] = SendAll(@, targets,
                                      TurnMessage(w, "streaming_tts"))]
       ELSE UNCHANGED sent
    /\ Proceed(w, turn[w], turn_log)
    /\ UNCHANGED <<medVars, now, sess, role, ws_open, active_connections, sessionVars,
                   callVars, tasks>>

\* 8. asyncio.create_task(_update_conversation_summary(...))
TurnSummary(w) ==
    /\ Stage(w) = "summary"
    /\ tasks' = tasks \cup {[manager |-> w, turn |-> turn[w].id,
                             session_id |-> sess[w]]}
    /\ Proceed(w, turn[w], turn_log)
    /\ UNCHANGED <<medVars, now, sess, role, ws_open, active_connections, sessionVars,
                   callVars, sent>>

\* a summary task whose exception takes the messages of its manager with it
SummaryTaskUndoing(task, raised) ==
    /\ task \in tasks
    /\ tasks' = tasks \ {task}
    /\ sent' = IF raised
               THEN [sent EXCEPT ![task.manager] = <<>>]
               ELSE BroadcastToSession(sent, task.manager, task.session_id,
                        Message("conversation_summary", task.turn,
                                task.session_id, "system"))
    /\ UNCHANGED <<medVars, now, connVars, sessionVars, callVars, turn, turn_log>>

\* the task of _update_conversation_summary, run by the event loop: an
\* exception raised while the summary is built is caught and logged
\* (lines 707-711), the broadcast catches the failure of each send
SummaryTask(task, raised) ==
    /\ task \in tasks
    /\ tasks' = tasks \ {task}
    /\ sent' = IF raised
               THEN sent
               ELSE BroadcastToSession(sent, task.manager, task.session_id,
                        Message("conversation_summary", task.turn,
                                task.session_id, "system"))
    /\ UNCHANGED <<medVars, now, connVars, sessionVars, callVars, turn, turn_log>>

\* _update_conversation_summary building its message without an exception
UpdateConversationSummary(task) == SummaryTask(task, FALSE)

TurnSteps(w) ==
    \/ TurnTranscript(w)
    \/ \E o \in MedicalOutcomes : TurnMedical(w, o)
    \/ TurnAlerts(w)
    \/ \E o \in TranslatorOutcomes : TurnTranslate(w, o)
    \/ \E n \in 0..1 : TurnTts(w, n)
    \/ TurnSummary(w)

(***************************************************************************)
(* SpecSeg: a session fed with audio by one ingestion path.                *)
(* SpecTurn: two websockets sending pre-transcribed text.                  *)
(***************************************************************************)
SegSockets == {"w1"}

SegNext ==
    \/ Tick
    \/ \E w \in SegSockets : \E s \in SessionIds : \E r \in Roles :
           HandleWebsocketConnection(w, s, r)
    \/ \E w \in SegSockets : ClientClose(w)
    \/ \E w \in SegSockets : Disconnect(w)
    \/ \E w \in SegSockets : \E c \in ChunkInputs : ReceiveChunk(w, c)
    \/ \E w \in SegSockets : AfterStatus(w)
    \/ \E w \in SegSockets : ProcStatus(w)
    \/ \E w \in SegSockets : \E t \in Texts : \E l \in Languages :
           Transcribed(w, t, l)
    \/ \E w \in SegSockets : Consume(w)
    \/ \E w \in SegSockets : TurnSteps(w)
    \/ \E task \in tasks : UpdateConversationSummary(task)

SpecSeg == Init /\ [][SegNext]_vars

TurnLanguages == {"en", "es"}

TurnNext ==
    \/ \E w \in Sockets : \E s \in SessionIds : \E r \in Roles :
           HandleWebsocketConnection(w, s, r)
    \/ \E w \in Sockets : ClientClose(w)
    \/ \E w \in Sockets : Disconnect(w)
    \/ \E w \in Sockets : \E t \in Texts : \E l \in TurnLanguages :
           ReceiveTranscription(w, t, l)
    \/ \E w \in Sockets : TurnSteps(w)
    \/ \E task \in tasks : UpdateConversationSummary(task)

SpecTurn == Init /\ [][TurnNext]_vars

(***************************************************************************)
(* Properties of the segmenter (SpecSeg)                                   *)
(***************************************************************************)
Idle(s) == /\ ~state[s].is_recording
           /\ state[s].last_speech_time = None
           /\ buffer[s] = EmptyBuffer

\* the chunk's level is at most vad_threshold
Quiet(chunk) == CalculateAudioLevel(chunk) * 100 <= 32767

\* the handler of websocket w takes a step out of position p
Leaves(w, p) == pc[w] = p /\ pc'[w] /= p

\* a silent chunk, arrived at least silence_duration after the last speech
\* chunk of a recording in progress, is being decided on
SilenceDue(w) ==
    /\ Quiet(audio_chunk[w])
    /\ state[sess[w]].is_recording
    /\ state[sess[w]].last_speech_time /= None
    /\ current_time[w] - state[sess[w]].last_speech_time >= silence_duration

LongEnough(s) ==
    /\ 2 * buffer[s].total_samples >= min_audio_length * sample_rate
    /\ 2 * buffer[s].total_samples <= max_audio_length * sample_rate

\* C1: with one ingestion path, the first silent chunk arriving at least
\* silence_duration after the last speech chunk, with between min_audio_length
\* and max_audio_length of speech buffered, starts a finalization that submits
\* the buffer for transcription exactly once and returns one result, leaving
\* the buffer empty and the state idle; a silent chunk arriving in the idle
\* state returns nothing.
C1_FinalizeOnce ==
    [][\A w \in SegSockets :
        /\ (Leaves(w, "status") /\ SilenceDue(w) /\ LongEnough(sess[w]))
              => /\ pc'[w] = "proc_status"
                 /\ submitted'[w] = 0
                 /\ buffer' = buffer
        /\ Leaves(w, "proc_status")
              => /\ pc'[w] = "transcribing"
                 /\ submitted'[w] = 1
                 /\ buffer' = buffer
        /\ Leaves(w, "transcribing")
              => /\ pc'[w] = "returned"
                 /\ ret'[w].kind = "stt"
                 /\ ret'[w].samples = buffer[sess[w]].total_samples
                 /\ submitted'[w] = 1
                 /\ Idle(sess[w])'
                 /\ ~state'[sess[w]].is_processing
        /\ (Leaves(w, "status") /\ Quiet(audio_chunk[w]) /\ Idle(sess[w]))
              => /\ pc'[w] = "returned"
                 /\ ret'[w] = NoResult
                 /\ submitted'[w] = 0
                 /\ Idle(sess[w])'
      ]_vars

\* a finalization has just returned its one result
C1_Witness ==
    \E w \in SegSockets :
        /\ pc[w] = "returned"
        /\ ret[w].kind = "stt"
        /\ ret[w].samples = buffer_duration[w]
        /\ 2 * buffer_duration[w] >= min_audio_length * sample_rate
        /\ elapsed[w] >= silence_duration
        /\ submitted[w] = 1
        /\ Idle(sess[w])

\* C2: in the idle state with an empty buffer (the state after the session is
\* started and after every finalization), a chunk whose level is at most
\* vad_threshold returns nothing and leaves the state idle and the buffer
\* empty, whenever it arrives.
C2_SilenceNeverRecords ==
    [][\A w \in SegSockets :
        /\ Leaves(w, "new") => Idle(sess[w])'
        /\ (Leaves(w, "idle") /\ Idle(sess[w])) => Idle(sess[w])'
        /\ (Leaves(w, "status") /\ Quiet(audio_chunk[w]) /\ Idle(sess[w]))
              => /\ pc'[w] = "returned"
                 /\ ret'[w].kind = "none"
                 /\ Idle(sess[w])'
                 /\ submitted'[w] = 0
      ]_vars

\* a chunk just under the threshold was answered with nothing in the idle
\* state
C2_Witness ==
    \E w \in SegSockets :
        /\ pc[w] = "returned"
        /\ audio_chunk[w].bytes > 0
        /\ audio_chunk[w].rms = 327
        /\ ~has_speech[w]
        /\ elapsed[w] = None
        /\ ret[w] = NoResult
        /\ Idle(sess[w])
        /\ now > 1

\* C3: when less than min_audio_length is buffered and a silent chunk arrives
\* at least silence_duration after the last speech chunk, the call returns
\* nothing (no utterance, no error result), requests no transcription, clears
\* the buffer and returns to idle.
C3_ShortBurstDiscarded ==
    [][\A w \in SegSockets :
        (/\ Leaves(w, "status")
         /\ SilenceDue(w)
         /\ 2 * buffer[sess[w]].total_samples < min_audio_length * sample_rate)
           => /\ pc'[w] = "returned"
              /\ ret'[w] = NoResult
              /\ submitted'[w] = 0
              /\ Idle(sess[w])'
              /\ ~state'[sess[w]].is_processing
      ]_vars

\* a burst of a quarter second has been discarded
C3_Witness ==
    \E w \in SegSockets :
        /\ pc[w] = "returned"
        /\ elapsed[w] /= None /\ elapsed[w] >= silence_duration
        /\ buffer_duration[w] = 4000
        /\ ret[w] = NoResult
        /\ submitted[w] = 0
        /\ Idle(sess[w])

IsSuffix(s, t) ==
    /\ Len(s) <= Len(t)
    /\ s = SubSeq(t, Len(t) - Len(s) + 1, Len(t))

RECURSIVE SumSamples(_)
SumSamples(chunks) ==
    IF chunks = <<>> THEN 0
    ELSE (Head(chunks) \div 2) + SumSamples(Tail(chunks))

\* a speech chunk is being added to the buffer of session s
Adding(w, s) == Leaves(w, "status") /\ has_speech[w] /\ sess[w] = s

\* C4: after every add_chunk, in any sequence of add_chunk and clear and for
\* any chunk sizes, total_samples <= int(max_duration * sample_rate), and the
\* chunks left are the newest ones: the buffer after add_chunk is a suffix
\* of the old chunks followed by the chunk added; any other step leaves the
\* buffer alone or empties it.
C4_BufferBounded ==
    [][\A s \in SessionIds :
        /\ buffer'[s].total_samples <= (max_audio_length * sample_rate) \div 2
        /\ buffer'[s].total_samples = SumSamples(buffer'[s].chunks)
        /\ \/ \E w \in SegSockets :
                 /\ Adding(w, s)
                 /\ IsSuffix(buffer'[s].chunks,
                             Append(buffer[s].chunks, audio_chunk[w].bytes))
           \/ buffer'[s] = EmptyBuffer
           \/ buffer'[s] = buffer[s] /\ \A w \in SegSockets : ~Adding(w, s)
      ]_vars

\* a chunk longer than the limit has been added: everything was evicted
C4_Witness ==
    \E w \in SegSockets :
        /\ pc[w] = "returned" /\ has_speech[w]
        /\ 2 * (audio_chunk[w].bytes \div 2) > max_audio_length * sample_rate
        /\ state[sess[w]].is_recording
        /\ state[sess[w]].last_speech_time = current_time[w]
        /\ buffer[sess[w]] = EmptyBuffer

(***************************************************************************)
(* Properties of the turn (SpecTurn)                                       *)
(***************************************************************************)
\* the client of websocket w is connected and its handler is running
Connected(w) == pc[w] \notin {"new", "closed"} /\ ws_open[w]

\* the clients that were connected to the session of turn t when it began
\* and still are
Audience(t) == {v \in turn_log[t].audience : Connected(v)}

Speaker(t) == turn_log[t].ws

\* manager m has delivered a message of this type and turn to client v among
\* the first n messages it sent
Delivered(m, n, v, type, t) ==
    \E i \in 1..n : /\ sent[m][i].to = v
                    /\ sent[m][i].message_type = type
                    /\ sent[m][i].turn = t

C6_TranslatorFailureTagged ==
    /\ \A m \in Sockets : \A j \in DOMAIN sent[m] :
          (/\ sent[m][j].message_type = "translation"
           /\ turn_log[sent[m][j].turn].translator_raised)
             => /\ sent[m][j].fallback
                /\ sent[m][j].translated_text /= <<>>
    /\ \A t \in DOMAIN turn_log :
          (/\ turn_log[t].done
           /\ turn_log[t].translator_raised
           /\ Connected(Speaker(t)))
             => Delivered(Speaker(t), Len(sent[Speaker(t)]), Speaker(t),
                          "translation", t)

BroadcastTypes == {"streaming_transcription", "medical_alert", "translation",
                   "conversation_summary"}

\* C7: with a doctor channel and a patient channel connected under one
\* session_id, every message broadcast by a turn of either role is sent to
\* both channels.
C7_BothChannelsReceive ==
    \A m \in Sockets : \A j \in DOMAIN sent[m] :
        LET msg == sent[m][j] IN
        (msg.turn > 0 /\ msg.message_type \in BroadcastTypes)
           => \A v \in Audience(msg.turn) :
                 role[v] /= role[Speaker(msg.turn)]
                    => Delivered(m, Len(sent[m]), v, msg.message_type,
                                 msg.turn)

\* the speaker's own client has the transcript of turn t and, after it, a
\* translation message
TranscriptThenTranslation(t) ==
    LET m == Speaker(t) IN
    \E j \in DOMAIN sent[m] :
        /\ sent[m][j].message_type = "translation"
        /\ sent[m][j].turn = t
        /\ Delivered(m, j - 1, m, "streaming_transcription", t)

\* C8: every turn, for either role and whatever language was detected, leads
\* to a transcript broadcast followed by a translation broadcast (ordinary or
\* fallback); no turn completes without one.
C8_EveryTurnTranslated ==
    \A t \in DOMAIN turn_log :
        (turn_log[t].done /\ Connected(Speaker(t)))
           => TranscriptThenTranslation(t)

\* C9: when process_medical_text raises, the turn goes on as with zero
\* medications: the transcript has been broadcast and a translation (or
\* fallback) is still broadcast.
C9_MedicalFailureStillTranslates ==
    \A t \in DOMAIN turn_log :
        (/\ turn_log[t].done
         /\ turn_log[t].medical = "raise"
         /\ GetTargetLanguage(role[Speaker(t)]) /= turn_log[t].language
         /\ Connected(Speaker(t)))
           => TranscriptThenTranslation(t)

Rank(type) ==
    CASE type = "streaming_transcription" -> 1
      [] type = "medical_alert" -> 2
      [] type = "translation" -> 3
      [] type = "streaming_tts" -> 4
      [] type = "conversation_summary" -> 5
      [] OTHER -> 0

\* C10: within one turn the messages are sent in the order transcript,
\* safety alerts, translation, TTS chunks, conversation summary.
C10_TurnOrder ==
    \A m \in Sockets : \A i, j \in DOMAIN sent[m] :
        (i < j /\ sent[m][i].turn > 0 /\ sent[m][i].turn = sent[m][j].turn)
           => Rank(sent[m][i].message_type) <= Rank(sent[m][j].message_type)

\* a turn has sent its transcript, an alert, its translation and its summary
C10_Witness ==
    \E m \in Sockets : \E t \in DOMAIN turn_log :
        /\ Len(sent[m]) >= 5
        /\ \E i \in DOMAIN sent[m] :
              /\ i + 3 \in DOMAIN sent[m]
              /\ \A k \in 0..3 : sent[m][i + k].turn = t
              /\ sent[m][i].message_type = "streaming_transcription"
              /\ sent[m][i + 1].message_type = "medical_alert"
              /\ sent[m][i + 2].message_type = "translation"
              /\ sent[m][i + 3].message_type = "conversation_summary"

\* the connections of manager m's registry that a broadcast to its session
\* would fail to send to
FailingTargets(m) ==
    {e \in BroadcastTargets(m, sess[m]) : ~ws_open[e[2]]}

\* manager m performs a _broadcast_to_session in this step
BroadcastStep(m) ==
    \/ TurnTranscript(m)
    \/ TurnAlerts(m) /\ turn[m].alerts_sent < turn[m].alerts
    \/ /\ GetTargetLanguage(role[m]) \notin {NoLanguage, turn[m].language}
       /\ \E o \in TranslatorOutcomes : TurnTranslate(m, o)
    \/ \E task \in tasks : task.manager = m /\ UpdateConversationSummary(task)

\* C11: when a send of a broadcast raises, the exception stays inside the
\* broadcast, and the failing channel is removed from the registry, so that
\* later broadcasts no longer attempt it.
C11_FailingChannelPruned ==
    [][\A m \in Sockets :
          (BroadcastStep(m) /\ FailingTargets(m) /= {})
             => \A e \in FailingTargets(m) : e \notin active_connections'[m]
      ]_vars

(***************************************************************************)
(* SpecDuo: the doctor and the patient of one session both streaming audio *)
(***************************************************************************)
DuoSession == <<"a">>
DuoChunks == {c \in ChunkInputs : c.b64 = "ok" /\ c.bytes = 16000}

DuoNext ==
    \/ Tick
    \/ \E w \in Sockets : \E r \in Roles :
           HandleWebsocketConnection(w, DuoSession, r)
    \/ \E w \in Sockets : \E c \in DuoChunks : ReceiveChunk(w, c)
    \/ \E w \in Sockets : AfterStatus(w)
    \/ \E w \in Sockets : ProcStatus(w)
    \/ \E w \in Sockets : \E t \in Texts : Transcribed(w, t, "es")
    \/ \E w \in Sockets : Consume(w)
    \/ \E w \in Sockets : TurnSteps(w)
    \/ \E task \in tasks : UpdateConversationSummary(task)

SpecDuo == Init /\ [][DuoNext]_vars

\* websockets w and v are the two roles of one session, both connected
TwoRoles(w, v) ==
    /\ Connected(w) /\ Connected(v)
    /\ sess[w] = sess[v]
    /\ role[w] /= role[v]

\* a step of the chunk handler of websocket w
ChunkStep(w) ==
    \/ \E c \in ChunkInputs : ReceiveChunk(w, c)
    \/ AfterStatus(w)
    \/ ProcStatus(w)
    \/ \E t \in Texts : \E l \in Languages : Transcribed(w, t, l)

\* C12: with both roles of a session streaming, a chunk ingested from one
\* role never changes the buffer contents, is_recording or last_speech_time
\* that the other role's chunks are segmented with.
C12_RolesSegmentedApart ==
    [][\A w, v \in Sockets :
          (TwoRoles(w, v) /\ ChunkStep(w))
             => /\ buffer'[sess[v]] = buffer[sess[v]]
                /\ state'[sess[v]].is_recording = state[sess[v]].is_recording
                /\ state'[sess[v]].last_speech_time
                      = state[sess[v]].last_speech_time
      ]_vars

\* the turn of an utterance is in progress on websocket w
TurnInProgress(w) == pc[w] = "turn" /\ ws_open[w]

\* C13: while the turn of one utterance is still in progress, an audio chunk
\* sent on the same connection is ingested by process_audio_chunk: the
\* message loop does not wait for the turn to complete.
C13_IngestionDuringTurn ==
    \A w \in Sockets :
        TurnInProgress(w)
           => ENABLED (\E c \in ChunkInputs : ReceiveChunk(w, c))

(***************************************************************************)
(* SpecSolo: the two roles of one session sending several transcribed      *)
(* utterances each                                                         *)
(***************************************************************************)
SoloRole == [w \in Sockets |-> IF w = "w1" THEN "doctor" ELSE "patient"]

SoloNext ==
    \/ \E w \in Sockets : HandleWebsocketConnection(w, DuoSession, SoloRole[w])
    \/ \E w \in Sockets :
           ReceiveTranscriptionWithin(w, "hola", "en", MaxSoloTurns)
    \/ \E w \in Sockets : TurnSteps(w)
    \/ \E task \in tasks : UpdateConversationSummary(task)

SpecSolo == Init /\ [][SoloNext]_vars

\* message types sent by the turn itself; the summary is sent by a task
TurnTypes == {"streaming_transcription", "medical_alert", "translation",
              "streaming_tts"}

\* C14: on one connection the turns run to completion in finalization
\* order: every transcript, alert, translation and TTS message of an
\* utterance is sent before any such message of a later utterance of the
\* same connection (the fire-and-forget summary excepted).
C14_TurnsInFinalizationOrder ==
    \A m \in Sockets : \A i, j \in DOMAIN sent[m] :
        (/\ i < j
         /\ sent[m][i].message_type \in TurnTypes
         /\ sent[m][j].message_type \in TurnTypes)
           => sent[m][i].turn <= sent[m][j].turn

\* one connection has sent the transcript, an alert and the translation of
\* an utterance and then those of a later one
C14_Witness ==
    \E m \in Sockets : \E i \in DOMAIN sent[m] :
        /\ i + 5 \in DOMAIN sent[m]
        /\ \A k \in 0..5 :
              sent[m][i + k].message_type =
                 <<"streaming_transcription", "medical_alert", "translation",
                   "streaming_transcription", "medical_alert",
                   "translation">>[k + 1]
        /\ sent[m][i].turn < sent[m][i + 3].turn
        /\ \A k \in 0..2 : /\ sent[m][i + k].turn = sent[m][i].turn
                           /\ sent[m][i + 3 + k].turn = sent[m][i + 3].turn

\* the clients of the turn's session connected under the role opposite to
\* the speaker's
OppositeClients(w) ==
    {v \in Audience(turn[w].id) : role[v] = GetOppositeRole(role[w])}

\* C15: when the translated text of a turn is non-empty and differs from the
\* source text and the opposite role is connected to the session, the
\* synthesized-speech chunks of the turn are sent to the opposite role's
\* channel, and to no other channel.
C15_TtsToOppositeRoleOnly ==
    [][\A w \in Sockets :
          (/\ TurnTts(w, 1)
           /\ turn[w].tts
           /\ OppositeClients(w) /= {})
             => /\ \E v \in OppositeClients(w) :
                      \E i \in DOMAIN sent'[w] :
                          /\ i > Len(sent[w])
                          /\ sent'[w][i].message_type = "streaming_tts"
                          /\ sent'[w][i].to = v
                /\ \A i \in DOMAIN sent'[w] :
                      (i > Len(sent[w])
                         /\ sent'[w][i].message_type = "streaming_tts")
                         => sent'[w][i].to \in OppositeClients(w)
      ]_vars

(***************************************************************************)
(* MedicationExtractionService (core/extraction.py).  A text is a sequence *)
(* of words separated by blanks; a term is a sequence of words.            *)
(***************************************************************************)
\* str.lower
Lower(word) == IF word = "Toma" THEN "toma" ELSE word

\* len(word)
WordLength(word) ==
    CASE word = "de" -> 2
      [] word = "dos" -> 3
      [] word \in {"Toma", "toma", "hola"} -> 4
      [] word = "estoy" -> 5
      [] word = "tomando" -> 7
      [] word = "pregnant" -> 8
      [] word = "ibuprofen" -> 9
      [] word \in {"furosemide", "embarazada", "ibuprofeno"} -> 10
      [] word = "amoxicillin" -> 11
      [] OTHER -> 0

\* _extract_by_patterns: the suffix patterns, in the order of the dict
Patterns ==
    <<"mycin", "cillin", "prazole", "statin", "pril", "lol", "ide", "pine">>

\* the pattern r'\b\w+<suffix>\b' that a (lower-case) word matches
Suffix(word) ==
    CASE word = "amoxicillin" -> "cillin"
      [] word = "furosemide" -> "ide"
      [] OTHER -> "none"

\* the texts given to the extraction
ExtractTexts ==
    {<<>>, <<"de">>, <<"toma">>, <<"Toma", "toma">>, <<"dos", "toma">>,
     <<"de", "amoxicillin">>, <<"amoxicillin", "amoxicillin">>,
     <<"toma", "dos", "amoxicillin">>, <<"furosemide", "de", "amoxicillin">>}

Candidate(term, strategy, position) ==
    [term |-> term, strategy |-> strategy, position |-> position]

\* re.findall(r'\b\w{3,}\b', text.lower())
FindAllWords(text) ==
    SelectSeq([i \in DOMAIN text |-> Lower(text[i])],
              LAMBDA word : WordLength(word) >= 3)

RECURSIVE SingleWordsFrom(_, _)
SingleWordsFrom(words, i) ==
    IF i > Len(words) THEN <<>>
    ELSE (IF WordLength(words[i]) >= 4
          THEN <<Candidate(<<words[i]>>, "single_word", i - 1)>>
          ELSE <<>>) \o SingleWordsFrom(words, i + 1)

\* _extract_single_words
ExtractSingleWordsUncached(words) ==
    SelectSeq(SingleWordsFrom(words, 1),
              LAMBDA c : <<c.term, "general">> \notin cache)
ExtractSingleWords(words) == SingleWordsFrom(words, 1)

\* _extract_bigrams
ExtractBigrams(words) ==
    [i \in 1..(Len(words) - 1) |->
        Candidate(<<words[i], words[i + 1]>>, "bigram", i - 1)]

\* re.finditer of one pattern over text.lower(); the position is the number
\* of blank-separated words of the text before the match
RECURSIVE MatchesFrom(_, _, _)
MatchesFrom(text, suffix, i) ==
    IF i > Len(text) THEN <<>>
    ELSE (IF Suffix(Lower(text[i])) = suffix
          THEN <<Candidate(<<Lower(text[i])>>, "pattern_match", i - 1)>>
          ELSE <<>>) \o MatchesFrom(text, suffix, i + 1)

RECURSIVE PatternsFrom(_, _)
PatternsFrom(text, k) ==
    IF k > Len(Patterns) THEN <<>>
    ELSE MatchesFrom(text, Patterns[k], 1) \o PatternsFrom(text, k + 1)

\* _extract_by_patterns
ExtractByPatterns(text) == PatternsFrom(text, 1)

\* the candidates from index i on whose term and strategy no earlier
\* candidate has
RECURSIVE UniqueFrom(_, _)
UniqueFrom(candidates, i) ==
    IF i > Len(candidates) THEN <<>>
    ELSE (IF \A j \in 1..(i - 1) :
                \/ candidates[j].term /= candidates[i].term
                \/ candidates[j].strategy /= candidates[i].strategy
          THEN <<candidates[i]>>
          ELSE <<>>) \o UniqueFrom(candidates, i + 1)

\* _deduplicate_candidates: the first candidate of each term and strategy
DeduplicateCandidates(candidates) == UniqueFrom(candidates, 1)

\* _identify_candidates
IdentifyCandidates(text) ==
    LET words == FindAllWords(text)
    IN DeduplicateCandidates(ExtractSingleWords(words)
                             \o ExtractBigrams(words)
                             \o ExtractByPatterns(text))

\* the cache keys f"{drug_name}_{specialty.value}" that validating the
\* candidates leaves in the api client (identify_medication, line 141)
CacheKeys(candidates, medical_context) ==
    {<<candidates[i].term, medical_context>> : i \in DOMAIN candidates}

\* extract_medications: candidates, their validation through the api
\* client, metadata, and the stored attempt
Extraction(text, medical_context) ==
    /\ Len(runs) < MaxRuns
    /\ runs' = Append(runs, [text |-> text,
                             candidates |-> IdentifyCandidates(text)])
    /\ cache' = cache \cup CacheKeys(IdentifyCandidates(text), medical_context)

\* extract_medications called on its own
ExtractMedications(text, medical_context) ==
    /\ Extraction(text, medical_context)
    /\ UNCHANGED <<now, connVars, sessionVars, callVars, turnVars, scored,
                   specialties, resolved, v1Vars>>

ExtractNext ==
    \E text \in ExtractTexts : ExtractMedications(text, "general")

SpecExtract == Init /\ [][ExtractNext]_vars

FullConfidence == 10000

\* _calculate_api_confidence
CalculateApiConfidence(api_result) ==
    IF api_result.canonical_name
    THEN 4000 + (IF api_result.indications THEN 1000 ELSE 0)
              + (IF api_result.contraindications THEN 1000 ELSE 0)
              + (IF api_result.rxcui THEN 1000 ELSE 0)
    ELSE 0

\* _calculate_context_confidence: min(context_matches * 0.05, 0.2)
CalculateContextConfidence(candidate) ==
    Min2(candidate.context_matches * 500, 2000)

\* _calculate_strategy_confidence: strategy_weights.get(strategy, 0)
CalculateStrategyConfidence(candidate) ==
    CASE candidate.strategy = "pattern_match" -> 1500
      [] candidate.strategy = "single_word" -> 500
      [] candidate.strategy = "bigram" -> 0
      [] OTHER -> 0

\* _calculate_position_confidence; word_count is len(original_text.split())
CalculatePositionConfidence(candidate, word_count) ==
    LET words == IF word_count > 1 THEN word_count ELSE 1
    IN (IF /\ 2 * words < 10 * candidate.position
           /\ 10 * candidate.position < 8 * words
        THEN 500 ELSE 0)
       + (IF 4 <= candidate.term_length /\ candidate.term_length <= 15
          THEN 500 ELSE 0)

\* _calculate_pattern_confidence: pattern_confidence * 0.15
CalculatePatternConfidence(candidate) ==
    IF candidate.pattern_confidence > 0
    THEN (candidate.pattern_confidence * 15) \div 100
    ELSE 0

\* calculate_confidence
CalculateConfidence(candidate, api_result, word_count) ==
    Min2(CalculateApiConfidence(api_result)
           + CalculateContextConfidence(candidate)
           + CalculateStrategyConfidence(candidate)
           + CalculatePositionConfidence(candidate, word_count)
           + CalculatePatternConfidence(candidate),
         FullConfidence)

\* _calculate_obgyn_confidence: min(base_confidence + obgyn_boost, 1.0)
CalculateObgynConfidence(candidate, obgyn_med_info, word_count) ==
    LET base_confidence ==
            CalculateConfidence(candidate, obgyn_med_info, word_count)
        obgyn_boost ==
            candidate.obgyn_confidence_boost
              + candidate.pregnancy_context_boost
              + candidate.condition_match_boost
              + candidate.stage_match_boost
              + (IF candidate.pregnancy_risk_flag THEN -1000 ELSE 0)
              + (IF obgyn_med_info.obgyn_relevance = "high" THEN 1500 ELSE 0)
    IN Min2(base_confidence + obgyn_boost, FullConfidence)

\* candidates of the three general strategies, by what the scorer reads
BaseCandidates ==
    {c \in [strategy : {"single_word", "bigram", "pattern_match"},
            context_matches : {0, 4, 17},
            position : 0..1,
            term_length : {4, 15, 16},
            pattern_confidence : {0, 7000, 9000}] :
        /\ (c.pattern_confidence > 0) <=> (c.strategy = "pattern_match")
        /\ c.strategy = "bigram" => c.term_length >= 7}

NoObgynModifiers ==
    [obgyn_confidence_boost |-> 0, pregnancy_context_boost |-> 0,
     condition_match_boost |-> 0, stage_match_boost |-> 0,
     pregnancy_risk_flag |-> FALSE]

\* record r extended with the fields of record e
Extend(r, e) ==
    [f \in (DOMAIN r) \cup (DOMAIN e) |->
        IF f \in DOMAIN e THEN e[f] ELSE r[f]]

\* _enhance_candidates_with_obgyn_context: a base candidate, flagged as a
\* pregnancy risk or not
EnhancedCandidates ==
    {Extend(c, [NoObgynModifiers EXCEPT !.pregnancy_risk_flag = risk]) :
        c \in BaseCandidates, risk \in BOOLEAN}

\* _extract_obgyn_patterns: candidates of the OBGYN patterns with their
\* boosts
ObgynPatternCandidates ==
    {Extend([strategy |-> "obgyn_pattern_match", context_matches |-> m,
             position |-> 1, term_length |-> 13, pattern_confidence |-> 0],
            [NoObgynModifiers EXCEPT !.obgyn_confidence_boost = b,
                                     !.pregnancy_context_boost = p,
                                     !.condition_match_boost = k,
                                     !.stage_match_boost = s]) :
        m \in {0}, b \in {2500, 4000}, p \in {0, 2000}, k \in {0, 1500},
        s \in {0, 2000}}

\* lookup_medication results, by the truth value of the fields read
ApiResults ==
    {r \in [canonical_name : BOOLEAN, indications : BOOLEAN,
            contraindications : BOOLEAN, rxcui : BOOLEAN,
            obgyn_relevance : {"none"}] :
        /\ r.contraindications => r.indications
        /\ r.rxcui => r.contraindications}

\* get_obgyn_medication_info results: a record of the local database (no
\* canonical_name), an api result with its obgyn_analysis, or {"error": ...}
ObgynMedInfos ==
    {[r EXCEPT !.obgyn_relevance = v] :
        r \in ApiResults, v \in {"unknown", "high"}}
    \cup {[canonical_name |-> FALSE, indications |-> FALSE,
           contraindications |-> FALSE, rxcui |-> FALSE,
           obgyn_relevance |-> "none"]}

\* one candidate of _validate_candidates
ValidateCandidate(candidate, api_result, word_count) ==
    /\ scored = NoScore
    /\ candidate.position < word_count
    /\ scored' = [path |-> "general", candidate |-> candidate,
                  info |-> api_result, word_count |-> word_count,
                  confidence |->
                      CalculateConfidence(candidate, api_result, word_count)]
    /\ UNCHANGED <<now, connVars, sessionVars, callVars, turnVars, cache,
                   runs, specialties, resolved, v1Vars>>

\* one candidate of _validate_obgyn_candidates
ValidateObgynCandidate(candidate, obgyn_med_info, word_count) ==
    /\ scored = NoScore
    /\ candidate.position < word_count
    /\ scored' = [path |-> "obgyn", candidate |-> candidate,
                  info |-> obgyn_med_info, word_count |-> word_count,
                  confidence |->
                      CalculateObgynConfidence(candidate, obgyn_med_info,
                                               word_count)]
    /\ UNCHANGED <<now, connVars, sessionVars, callVars, turnVars, cache,
                   runs, specialties, resolved, v1Vars>>

WordCounts == {1, 3}

ConfidenceNext ==
    \/ \E c \in BaseCandidates : \E a \in ApiResults : \E n \in WordCounts :
           ValidateCandidate(Extend(c, NoObgynModifiers), a, n)
    \/ \E c \in EnhancedCandidates \cup ObgynPatternCandidates :
           \E a \in ObgynMedInfos : \E n \in WordCounts :
               ValidateObgynCandidate(c, a, n)

SpecConfidence == Init /\ [][ConfidenceNext]_vars

Contains(word, term) ==
    \/ word = term
    \/ word = "ibuprofeno" /\ term = "ibuprofen"

\* `term in text.lower()`; a term of several words occurs in none of the
\* texts below
Occurs(term, text) == \E i \in DOMAIN text : Contains(Lower(text[i]), term)

\* OBGYNSpecialty.keywords
OBGYNKeywords ==
    <<"pregnant", "pregnancy", "prenatal", "postpartum", "breastfeeding",
      "birth control", "contraception", "period", "menstrual", "cycle",
      "pcos", "endometriosis", "fertility", "ovulation", "gynecologist",
      "obgyn", "ob/gyn", "prenatal vitamins", "folic acid", "gestational",
      "trimester", "labor", "delivery", "cervical", "uterine", "ovarian">>

\* the Spanish keywords that the registration appends
SpanishKeywords ==
    <<"embarazada", "embarazo", "tomando", "vitaminas prenatales",
      "acido folico", "anticonceptivos", "menstruacion", "ginecologo",
      "primer trimestre", "segundo trimestre", "tercer trimestre",
      "amamantando", "lactancia", "posparto", "medicamento", "medicina",
      "pastillas", "vitaminas", "tratamiento", "dosis", "sintomas">>

\* specialty_class.keywords of a registered specialty
Keywords(specialty_name) ==
    IF specialty_name = "obgyn" THEN OBGYNKeywords \o SpanishKeywords
    ELSE <<>>

\* the patient_profile argument: None, or a dict with the pregnancy fields
NoProfile ==
    [given |-> FALSE, pregnancy_status |-> FALSE, gestational_weeks |-> 0]

PatientProfiles ==
    {NoProfile,
     [given |-> TRUE, pregnancy_status |-> FALSE, gestational_weeks |-> 0],
     [given |-> TRUE, pregnancy_status |-> TRUE, gestational_weeks |-> 10]}

\* the specialty argument
SpecialtyArguments == {"general", "obgyn", "cardiology"}

\* the texts given to process_medical_text
MedicalTexts ==
    {<<"hola">>, <<"tomando", "ibuprofeno">>,
     <<"estoy", "embarazada", "tomando", "ibuprofeno">>,
     <<"pregnant", "ibuprofen">>}

\* SpecialtyRegistry.detect_specialty: the first registered specialty one
\* of whose keywords occurs in the text; patient_profile is not read
DetectSpecialty(text, patient_profile) ==
    LET matched == {k \in DOMAIN specialties :
                       \E j \in DOMAIN Keywords(specialties[k]) :
                           Occurs(Keywords(specialties[k])[j], text)}
    IN IF matched = {} THEN "general"
       ELSE specialties[CHOOSE k \in matched : \A j \in matched : k <= j]

\* SpecialtyRegistry.get_specialty: the service of a registered name, or
\* None
GetSpecialty(specialty_name) ==
    IF \E k \in DOMAIN specialties : specialties[k] = specialty_name
    THEN specialty_name ELSE "none"

\* the general pregnancy indicators of _detect_pregnancy_stage
PregnancyTerms ==
    {"pregnant", "pregnancy", "expecting", "prenatal", "embarazada",
     "embarazo", "esperando bebe"}

\* _detect_pregnancy_stage; the stage-specific phrases occur in none of the
\* texts above
DetectPregnancyStage(text, patient_profile) ==
    IF \E term \in PregnancyTerms : Occurs(term, text) THEN "unknown"
    ELSE IF patient_profile.given /\ patient_profile.pregnancy_status
         THEN (IF patient_profile.gestational_weeks <= 13
               THEN "first_trimester"
               ELSE IF patient_profile.gestational_weeks <= 27
                    THEN "second_trimester" ELSE "third_trimester")
         ELSE "not_pregnant"

\* all_risky_terms of _assess_safety_flags
RiskyTerms ==
    <<"ibuprofen", "aspirin", "accutane", "warfarin", "ace inhibitor",
      "ibuprofeno", "aspirina", "warfarina">>

SubstanceTerms ==
    {"alcohol", "drinking", "smoking", "bebiendo", "fumando", "cigarrillos"}

\* _assess_safety_flags
AssessSafetyFlags(text, pregnancy_stage) ==
    IF pregnancy_stage \in {"first_trimester", "second_trimester",
                            "third_trimester", "unknown"}
    THEN [i \in DOMAIN SelectSeq(RiskyTerms, LAMBDA t : Occurs(t, text)) |->
             [type |-> "medication_pregnancy_risk",
              medication |->
                 SelectSeq(RiskyTerms, LAMBDA t : Occurs(t, text))[i]]]
         \o (IF \E term \in SubstanceTerms : Occurs(term, text)
             THEN <<[type |-> "substance_use_pregnancy",
                     medication |-> "none"]>>
             ELSE <<>>)
    ELSE <<>>

\* process_medical_text: auto-detection when the argument is "general",
\* then the registered specialty service of the name or, without one, the
\* general extraction with the name as its medical context.  Either service
\* identifies the base candidates of the text and stores the attempt.
ProcessMedicalText(text, specialty, patient_profile) ==
    LET detected_specialty == DetectSpecialty(text, patient_profile)
        name == IF specialty = "general" /\ detected_specialty /= "general"
                THEN detected_specialty ELSE specialty
        specialty_service == GetSpecialty(name)
    IN /\ Extraction(text, name)
       /\ resolved' =
             [text |-> text, requested |-> specialty,
              patient_profile |-> patient_profile,
              specialty |-> name,
              handled_by |-> IF specialty_service /= "none"
                             THEN specialty_service ELSE "general",
              safety_flags |->
                 IF specialty_service = "obgyn"
                 THEN AssessSafetyFlags(
                         text, DetectPregnancyStage(text, patient_profile))
                 ELSE <<>>]
       /\ UNCHANGED <<now, connVars, sessionVars, callVars, turnVars, scored,
                      specialties, v1Vars>>

MedicalNext ==
    \E text \in MedicalTexts, specialty \in SpecialtyArguments,
       patient_profile \in PatientProfiles :
        ProcessMedicalText(text, specialty, patient_profile)

SpecMedical == Init /\ [][MedicalNext]_vars

\* C18: a text with a pregnancy keyword and a pregnancy-risky drug name,
\* processed with specialty "general", is resolved to the obgyn specialty,
\* handled by the registered obgyn service, and its result carries a
\* pregnancy-risk safety flag naming the drug.
C18_PregnancyTextFlagged ==
    (/\ resolved /= NoResolution
     /\ resolved.requested = "general"
     /\ \E term \in PregnancyTerms : Occurs(term, resolved.text)
     /\ \E k \in DOMAIN RiskyTerms : Occurs(RiskyTerms[k], resolved.text))
       => /\ resolved.specialty = "obgyn"
          /\ resolved.handled_by = "obgyn"
          /\ \E i \in DOMAIN resolved.safety_flags :
                /\ resolved.safety_flags[i].type = "medication_pregnancy_risk"
                /\ Occurs(resolved.safety_flags[i].medication, resolved.text)

\* the specialty that a patient profile signals on its own
ProfileSignal(patient_profile) ==
    IF patient_profile.given /\ patient_profile.pregnancy_status
    THEN "obgyn" ELSE "general"

\* C19: the specialty of a call is the explicit argument when it is not
\* "general"; otherwise the first registered specialty with a keyword in
\* the text; otherwise the specialty that the patient profile signals, even
\* when no keyword matches; otherwise general.  A name without a registered
\* service is handled by the general extraction.
C19_ResolutionOrder ==
    resolved /= NoResolution
       => /\ resolved.specialty =
                (IF resolved.requested /= "general" THEN resolved.requested
                 ELSE IF DetectSpecialty(resolved.text,
                                         resolved.patient_profile) /= "general"
                      THEN DetectSpecialty(resolved.text,
                                           resolved.patient_profile)
                      ELSE ProfileSignal(resolved.patient_profile))
          /\ GetSpecialty(resolved.specialty) = "none"
                => resolved.handled_by = "general"

(***************************************************************************)
(* The websocket endpoints and what they do with the path parameters:      *)
(* /api/v1 websocket_endpoint with the module's conversation_manager       *)
(* (conversation_router.py, realtime_manager.py), and /api/v2              *)
(* enhanced_websocket_endpoint (HandleWebsocketConnection above).          *)
(***************************************************************************)
\* the role path parameter: a string
PathRoles == Roles \cup {"nurse"}

\* str(uuid.uuid4()): the session ids that create_conversation_session can
\* issue, all of one length and distinct
Uuids == {<<"a", "b">>, <<"a", "c">>}

\* the session_id path parameter of /api/v1: any string
V1PathSessions == SessionIds \cup Uuids

\* the connection ids of v1_connections, in dict order
Keys(connections) == {connections[i][1] : i \in DOMAIN connections}

\* active_connections[connection_id] = websocket: a key that is present
\* keeps its place
Store(connections, connection_id, w) ==
    IF connection_id \in Keys(connections)
    THEN [i \in DOMAIN connections |->
             IF connections[i][1] = connection_id
             THEN <<connection_id, w>> ELSE connections[i]]
    ELSE Append(connections, <<connection_id, w>>)

\* active_connections.pop(connection_id, None)
Pop(connections, connection_id) ==
    SelectSeq(connections, LAMBDA e : e[1] /= connection_id)

\* the entries whose connection id starts with session_id
SessionConnections(connections, session_id) ==
    SelectSeq(connections, LAMBDA e : StartsWith(e[1], session_id))

V1Message(w, type, session_id) ==
    [to |-> w, message_type |-> type, session_id |-> session_id]

\* the broadcasts of one turn of /api/v1, in program order; the general
\* extraction result has no medical_notes, so _check_safety_alerts
\* broadcasts nothing
V1TurnMessages ==
    <<"transcription", "translation", "tts_audio", "conversation_summary">>

\* POST /create: create_conversation_session
CreateConversationSession(session_id) ==
    /\ session_id \in Uuids \ issued
    /\ issued' = issued \cup {session_id}
    /\ active_sessions' =
          [s \in DOMAIN active_sessions \cup {session_id} |->
              IF s = session_id THEN [last_activity |-> now]
              ELSE active_sessions[s]]
    /\ UNCHANGED <<now, connVars, sessionVars, callVars, turnVars, cache, runs,
                   scored, specialties, resolved, v1_connections, v1_sent,
                   v1_call, v1_turns>>

\* websocket_endpoint of /api/v1: an invalid role closes the websocket
\* before accepting it; connect_websocket accepts, answers an unknown
\* session with an error message and closes, and otherwise stores the
\* connection and sends the welcome message
WebsocketEndpoint(w, session_id, r) ==
    /\ pc[w] = "new"
    /\ sess' = [sess EXCEPT ![w] = session_id]
    /\ role' = [role EXCEPT ![w] = r]
    /\ IF r \notin Roles
       THEN /\ pc' = [pc EXCEPT ![w] = "closed"]
            /\ UNCHANGED <<ws_open, v1_sent, v1_connections>>
       ELSE IF session_id \notin DOMAIN active_sessions
            THEN /\ pc' = [pc EXCEPT ![w] = "closed"]
                 /\ v1_sent' = Append(v1_sent,
                                      V1Message(w, "error", session_id))
                 /\ UNCHANGED <<ws_open, v1_connections>>
            ELSE /\ pc' = [pc EXCEPT ![w] = "v1_receive"]
                 /\ ws_open' = [ws_open EXCEPT ![w] = TRUE]
                 /\ v1_connections' =
                       Store(v1_connections, ConnId(session_id, r), w)
                 /\ v1_sent' = Append(v1_sent,
                                      V1Message(w, "system_status",
                                                session_id))
    /\ UNCHANGED <<now, active_connections, sessionVars, callVars, turnVars,
                   cache, runs, scored, specialties, resolved,
                   active_sessions, issued, v1_call, v1_turns>>

\* WebSocketDisconnect out of receive_json of /api/v1:
\* disconnect_websocket pops the connection id
DisconnectWebsocket(w) ==
    /\ pc[w] = "v1_receive"
    /\ pc' = [pc EXCEPT ![w] = "closed"]
    /\ ws_open' = [ws_open EXCEPT ![w] = FALSE]
    /\ v1_connections' = Pop(v1_connections, ConnId(sess[w], role[w]))
    /\ UNCHANGED <<now, sess, role, active_connections, sessionVars, callVars,
                   turnVars, cache, runs, scored, specialties, resolved,
                   active_sessions, issued, v1_sent, v1_call, v1_turns>>

\* session.add_message: last_activity = datetime.now()
AddMessage(sessions, session_id) ==
    [sessions EXCEPT ![session_id].last_activity = now]

\* _broadcast_to_session up to its first send: the connections of the
\* session as the registry holds them now
BeginBroadcast(w, session_id, stage) ==
    v1_call' = [v1_call EXCEPT
                  ![w] = [session_id |-> session_id, stage |-> stage,
                          pending |-> SessionConnections(v1_connections,
                                                         session_id)]]

\* handle_websocket_message with a "transcription" message:
\* _handle_transcription.  Without text nothing is done; for a session that
\* has been ended the lookup raises and the error is sent to this websocket;
\* otherwise the message is added to the session and its broadcast begins
HandleTranscription(w, text) ==
    /\ pc[w] = "v1_receive"
    /\ ws_open[w]
    /\ v1_turns < MaxV1Turns
    /\ IF text = ""
       THEN UNCHANGED <<pc, active_sessions, v1_sent, v1_call, v1_turns>>
       ELSE IF sess[w] \notin DOMAIN active_sessions
       THEN /\ v1_sent' = Append(v1_sent, V1Message(w, "error", sess[w]))
            /\ v1_turns' = v1_turns + 1
            /\ UNCHANGED <<pc, active_sessions, v1_call>>
       ELSE /\ active_sessions' = AddMessage(active_sessions, sess[w])
            /\ BeginBroadcast(w, sess[w], 1)
            /\ pc' = [pc EXCEPT ![w] = "v1_send"]
            /\ v1_turns' = v1_turns + 1
            /\ UNCHANGED v1_sent
    /\ UNCHANGED <<now, sess, role, ws_open, active_connections, sessionVars,
                   callVars, turnVars, cache, runs, scored, specialties,
                   resolved, issued, v1_connections>>

\* one send of the loop of _broadcast_to_session: delivered, or failed and
\* the connection id popped
BroadcastSend(w) ==
    LET call == v1_call[w]
        e == Head(call.pending)
    IN
    /\ pc[w] = "v1_send"
    /\ call.pending /= <<>>
    /\ v1_call' = [v1_call EXCEPT ![w].pending = Tail(@)]
    /\ IF ws_open[e[2]]
       THEN /\ v1_sent' = Append(v1_sent,
                                 V1Message(e[2],
                                           V1TurnMessages[call.stage],
                                           call.session_id))
            /\ UNCHANGED v1_connections
       ELSE /\ v1_connections' = Pop(v1_connections, e[1])
            /\ UNCHANGED v1_sent
    /\ UNCHANGED <<now, connVars, sessionVars, callVars, turnVars, cache, runs,
                   scored, specialties, resolved, active_sessions, issued,
                   v1_turns>>

\* the turn is over: back to receive_json
EndV1Turn(w) ==
    /\ pc' = [pc EXCEPT ![w] = "v1_receive"]
    /\ v1_call' = [v1_call EXCEPT ![w] = NoCall]
    /\ UNCHANGED active_sessions

\* after the last send of a broadcast: the statements of
\* _process_conversation_turn up to the next broadcast.  The medical service
\* raises, or the session has been ended meanwhile, and the except around
\* the statement ends the turn; the placeholder TTS service always returns
\* audio
BroadcastDone(w, raised) ==
    LET call == v1_call[w]
        s == call.session_id
    IN
    /\ pc[w] = "v1_send"
    /\ call.pending = <<>>
    /\ CASE call.stage = 1 ->
              IF raised \/ s \notin DOMAIN active_sessions
              THEN EndV1Turn(w)
              ELSE /\ active_sessions' = AddMessage(active_sessions, s)
                   /\ BeginBroadcast(w, s, 2)
                   /\ UNCHANGED pc
         [] call.stage = 2 ->
              /\ ~raised
              /\ BeginBroadcast(w, s, 3)
              /\ UNCHANGED <<pc, active_sessions>>
         [] call.stage = 3 ->
              IF raised \/ s \notin DOMAIN active_sessions
              THEN EndV1Turn(w)
              ELSE /\ BeginBroadcast(w, s, 4)
                   /\ UNCHANGED <<pc, active_sessions>>
         [] OTHER ->
              /\ ~raised
              /\ EndV1Turn(w)
    /\ UNCHANGED <<now, sess, role, ws_open, active_connections, sessionVars,
                   callVars, turnVars, cache, runs, scored, specialties,
                   resolved, issued, v1_connections, v1_sent, v1_turns>>

\* POST /end: end_conversation_session pops the connections of the session
\* and the session
EndConversationSession(session_id) ==
    /\ session_id \in DOMAIN active_sessions
    /\ v1_connections' =
          SelectSeq(v1_connections,
                    LAMBDA e : ~StartsWith(e[1], session_id))
    /\ active_sessions' =
          [s \in DOMAIN active_sessions \ {session_id} |-> active_sessions[s]]
    /\ UNCHANGED <<now, connVars, sessionVars, callVars, turnVars, cache, runs,
                   scored, specialties, resolved, issued, v1_sent, v1_call,
                   v1_turns>>

\* the steps of the /api/v1 manager and of its clients
V1Steps ==
    \/ \E session_id \in Uuids : CreateConversationSession(session_id)
    \/ \E w \in Sockets, session_id \in V1PathSessions, r \in PathRoles :
           WebsocketEndpoint(w, session_id, r)
    \/ \E w \in Sockets : ClientClose(w)
    \/ \E w \in Sockets : DisconnectWebsocket(w)
    \/ \E w \in Sockets, text \in Texts : HandleTranscription(w, text)
    \/ \E w \in Sockets : BroadcastSend(w)
    \/ \E w \in Sockets, raised \in BOOLEAN : BroadcastDone(w, raised)
    \/ \E session_id \in Uuids : EndConversationSession(session_id)

SpecV1 == Init /\ [][V1Steps]_vars

\* connection attempts at both endpoints with any role and session id, and
\* text sent on the connections that are handled
GateNext ==
    \/ \E w \in Sockets, session_id \in SessionIds, r \in PathRoles :
           HandleWebsocketConnection(w, session_id, r)
    \/ \E session_id \in Uuids : CreateConversationSession(session_id)
    \/ \E w \in Sockets, session_id \in SessionIds, r \in PathRoles :
           WebsocketEndpoint(w, session_id, r)
    \/ \E w \in Sockets : DisconnectWebsocket(w)
    \/ \E w \in Sockets : ReceiveTranscription(w, "hola", "en")
    \/ \E w \in Sockets : TurnSteps(w)
    \/ \E task \in tasks : UpdateConversationSummary(task)

SpecGate == Init /\ [][GateNext]_vars

\* C20: at either websocket endpoint a connection attempt with a role other
\* than doctor or patient, or for a session id that does not exist, is
\* rejected: the channel enters no connection registry, no streaming audio
\* state is created, and the handler ends, so that no turn is ever run on
\* messages of the channel.
C20_InvalidAttemptsRejected ==
    [][\A w \in Sockets, session_id \in SessionIds, r \in PathRoles :
          (/\ \/ HandleWebsocketConnection(w, session_id, r)
              \/ WebsocketEndpoint(w, session_id, r)
           /\ r \notin Roles \/ session_id \notin DOMAIN active_sessions)
             => /\ active_connections' = active_connections
                /\ v1_connections' = v1_connections
                /\ started' = started
                /\ buffer' = buffer
                /\ state' = state
                /\ pc'[w] = "closed"
      ]_vars

(***************************************************************************)
(* Further properties of the segmenter (SpecSeg)                           *)
(***************************************************************************)
\* C21: a chunk that cannot be decoded, received for a started session,
\* returns no utterance and requests no transcription, and leaves the
\* buffer, is_recording and last_speech_time of the session as they were;
\* the handler is then ready for the next chunk of the recording.
C21_UndecodableChunkDropped ==
    [][\A w \in SegSockets :
          (/\ sess[w] \in started
           /\ \E c \in ChunkInputs : c.b64 = "bad" /\ ReceiveChunk(w, c))
             => /\ pc'[w] = "returned"
                /\ ret'[w] = NoResult
                /\ submitted'[w] = 0
                /\ buffer'[sess[w]] = buffer[sess[w]]
                /\ state'[sess[w]] = state[sess[w]]
      ]_vars

\* an undecodable chunk has been answered while a recording with buffered
\* speech was in progress
C21_Witness ==
    \E w \in SegSockets :
        /\ pc[w] = "returned"
        /\ current_time[w] = None
        /\ ret[w] = NoResult
        /\ sess[w] \in started
        /\ state[sess[w]].is_recording
        /\ state[sess[w]].last_speech_time /= None
        /\ buffer[sess[w]].chunks /= <<>>

(***************************************************************************)
(* Properties of the /api/v1 registry (SpecV1)                             *)
(***************************************************************************)
Registered(connections) == {connections[i] : i \in DOMAIN connections}

\* the handler of channel w fails a send to w itself or to another channel
FailsSendTo(w, v) ==
    /\ BroadcastSend(w)
    /\ Head(v1_call[w].pending)[2] = v
    /\ ~ws_open[v]

\* C22: the registry of RealTimeConversationManager holds at most one
\* channel per connection id; a connect registers the connecting channel
\* under its id in place of the one before; and a registered channel leaves
\* the registry only when that channel itself disconnects or fails a send,
\* when a newer channel takes its id, or when its session is ended - never
\* because a superseded channel of the same id disconnects or fails a send.
C22_NewerChannelStays ==
    [][/\ \A i, j \in DOMAIN v1_connections' :
             v1_connections'[i][1] = v1_connections'[j][1] => i = j
       /\ \A w \in Sockets, session_id \in V1PathSessions, r \in PathRoles :
             (WebsocketEndpoint(w, session_id, r) /\ pc'[w] = "v1_receive")
                => <<ConnId(session_id, r), w>> \in Registered(v1_connections')
       /\ \A e \in Registered(v1_connections) :
             e \notin Registered(v1_connections')
                => \/ DisconnectWebsocket(e[2])
                   \/ \E w \in Sockets : FailsSendTo(w, e[2])
                   \/ e[1] \in Keys(v1_connections')
                   \/ \E session_id \in Uuids :
                         /\ EndConversationSession(session_id)
                         /\ StartsWith(e[1], session_id)
      ]_vars

(***************************************************************************)
(* Finalization of one session's buffer by the handlers of both roles      *)
(***************************************************************************)
\* the handler of websocket w is suspended inside _process_audio_buffer
Finalizing(w) == pc[w] \in {"proc_status", "transcribing"}

\* the handler of websocket w calls _process_audio_buffer in this step
StartsFinalization(w) == pc[w] = "status" /\ pc'[w] = "proc_status"

\* C23: buffered audio of a session is submitted at most once: while one
\* finalization is suspended inside _process_audio_buffer no handler of the
\* same session starts a second one, and the buffer.clear() that follows
\* the finalization erases nothing that was appended during the suspension.
C23_SubmittedAtMostOnce ==
    [][\A w \in Sockets :
          /\ StartsFinalization(w)
                => \A v \in Sockets \ {w} :
                       ~(sess[v] = sess[w] /\ Finalizing(v))
          /\ Leaves(w, "transcribing")
                => buffer[sess[w]].total_samples = buffer_duration[w]
      ]_vars

(***************************************************************************)
(* SpecShare: the two roles of one session connecting, streaming audio and *)
(* disconnecting; a client connects while no chunk handler of the session  *)
(* is suspended, and the transcriber finds no text in the audio            *)
(***************************************************************************)
ShareChunks == {c \in DuoChunks : c.rms \in {327, 328}}

NoHandlerSuspended(s) ==
    \A v \in Sockets :
        sess[v] = s => pc[v] \notin {"status", "proc_status", "transcribing"}

ShareNext ==
    \/ Tick
    \/ \E w \in Sockets :
           /\ NoHandlerSuspended(DuoSession)
           /\ HandleWebsocketConnection(w, DuoSession, SoloRole[w])
    \/ \E w \in Sockets : ClientClose(w)
    \/ \E w \in Sockets : Disconnect(w)
    \/ \E w \in Sockets : \E c \in ShareChunks : ReceiveChunk(w, c)
    \/ \E w \in Sockets : AfterStatus(w)
    \/ \E w \in Sockets : ProcStatus(w)
    \/ \E w \in Sockets : Transcribed(w, "", "es")
    \/ \E w \in Sockets : Consume(w)

SpecShare == Init /\ [][ShareNext]_vars

\* websocket v is another, still connected websocket of session s
OtherConnected(w, v, s) == v /= w /\ Connected(v) /\ sess[v] = s

\* websocket w is connected to its session in this step
ConnectStep(w) == pc[w] = "new" /\ pc'[w] = "idle"

\* the handler of websocket w runs its finally block in this step
DisconnectStep(w) == pc[w] = "idle" /\ pc'[w] = "closed"

\* C24: connecting or disconnecting one websocket of a session never resets
\* or removes the buffer and recording state in use by another still
\* connected websocket of the session, whose chunks are therefore never
\* dropped for want of a streaming session.
C24_StreamingStateKept ==
    [][\A w, v \in Sockets :
          /\ (ConnectStep(w) /\ OtherConnected(w, v, sess'[w]))
                => /\ buffer'[sess[v]] = buffer[sess[v]]
                   /\ state'[sess[v]] = state[sess[v]]
          /\ (DisconnectStep(w) /\ OtherConnected(w, v, sess[w]))
                => sess[v] \in started'
          /\ (Connected(v) /\ \E c \in ShareChunks : ReceiveChunk(v, c))
                => pc'[v] = "status"
      ]_vars

(***************************************************************************)
(* SpecIdle: the /api/v1 manager as time passes.  The server's own steps   *)
(* are taken whenever they stay possible (the event loop runs every ready  *)
(* coroutine); nothing obliges a client to send a request.                 *)
(***************************************************************************)
IdleSockets == {"w1"}

IdleNext ==
    \/ Tick
    \/ \E session_id \in Uuids : CreateConversationSession(session_id)
    \/ \E w \in IdleSockets, session_id \in Uuids, r \in Roles :
           WebsocketEndpoint(w, session_id, r)
    \/ \E w \in IdleSockets : ClientClose(w)
    \/ \E w \in IdleSockets : DisconnectWebsocket(w)
    \/ \E w \in IdleSockets, text \in Texts : HandleTranscription(w, text)
    \/ \E w \in IdleSockets : BroadcastSend(w)
    \/ \E w \in IdleSockets, raised \in BOOLEAN : BroadcastDone(w, raised)
    \/ \E session_id \in Uuids : EndConversationSession(session_id)

SpecIdle ==
    /\ Init
    /\ [][IdleNext]_vars
    /\ WF_vars(Tick)
    /\ \A w \in IdleSockets :
          /\ WF_vars(DisconnectWebsocket(w))
          /\ WF_vars(BroadcastSend(w))
          /\ WF_vars(\E raised \in BOOLEAN : BroadcastDone(w, raised))

\* C25: a session of active_sessions is removed by end_conversation_session
\* or once it has been idle for conversation_timeout: no session stays in
\* active_sessions forever.
C25_IdleSessionRemoved ==
    \A session_id \in Uuids :
        (session_id \in DOMAIN active_sessions)
            ~> (session_id \notin DOMAIN active_sessions)

(***************************************************************************)
(* extract_medications with the validation of its candidates               *)
(* (core/extraction.py, _validate_candidates)                              *)
(***************************************************************************)
\* ConfidenceScorer.medication_indicators
MedicationIndicators ==
    {"taking", "prescribed", "medication", "medicine", "drug", "pill",
     "tablet", "dosage", "mg", "milligram", "daily", "twice", "morning",
     "doctor", "physician", "pharmacy", "prescription"}

\* self.confidence_threshold
confidence_threshold == 3000

\* the weight of each suffix pattern of _extract_by_patterns
PatternWeight(suffix) ==
    CASE suffix = "mycin" -> 8000
      [] suffix = "cillin" -> 8500
      [] suffix = "prazole" -> 9000
      [] suffix = "statin" -> 8500
      [] suffix = "pril" -> 8000
      [] suffix = "lol" -> 7500
      [] suffix = "ide" -> 7000
      [] suffix = "pine" -> 7000
      [] OTHER -> 0

\* len(candidate["term"]): the words of the term joined by single blanks
RECURSIVE TermLength(_)
TermLength(term) ==
    IF term = <<>> THEN 0
    ELSE WordLength(Head(term))
           + (IF Len(term) > 1 THEN 1 ELSE 0) + TermLength(Tail(term))

\* words[first:last] of Python, for 0-based first and exclusive last
Slice(words, first, last) ==
    SubSeq(words, (IF first < 0 THEN 0 ELSE first) + 1,
           IF last > Len(words) THEN Len(words) ELSE last)

\* candidate["context"]: the words around a single word or a bigram, and
\* the 20 characters either side of a pattern match, which cover every
\* text of ExtractTexts
CandidateContext(candidate, text) ==
    LET words == FindAllWords(text)
        i == candidate.position
    IN CASE candidate.strategy = "single_word" -> Slice(words, i - 2, i + 3)
         [] candidate.strategy = "bigram" -> Slice(words, i - 1, i + 4)
         [] OTHER -> [k \in DOMAIN text |-> Lower(text[k])]

\* the indicators found in the context (each one is a word of its own in
\* the texts considered)
ContextMatches(context) ==
    Cardinality({indicator \in MedicationIndicators :
                    \E k \in DOMAIN context : context[k] = indicator})

\* what ConfidenceScorer reads of a candidate of _identify_candidates
ScoredCandidate(candidate, text) ==
    [strategy |-> candidate.strategy,
     context_matches |-> ContextMatches(CandidateContext(candidate, text)),
     position |-> candidate.position,
     term_length |-> TermLength(candidate.term),
     pattern_confidence |->
         IF candidate.strategy = "pattern_match"
         THEN PatternWeight(Suffix(candidate.term[1])) ELSE 0]

\* lookup_medication results: canonical_name defaults to the drug name and
\* is replaced by the name of the RxNorm concept when there is one
LookupResults == {r \in ApiResults : r.indications => r.canonical_name}

\* _validate_candidates: the candidates whose confidence exceeds the
\* threshold, in the order of the candidate list
ValidateCandidates(candidates, api_result, text) ==
    SelectSeq(candidates,
              LAMBDA c : CalculateConfidence(ScoredCandidate(c, text),
                                             api_result, Len(text))
                            > confidence_threshold)

\* extract_medications with the list it returns under "medications"
ExtractValidatedMedications(text, medical_context, api_result) ==
    /\ Len(runs) < MaxRuns
    /\ runs' = Append(runs,
                      [text |-> text,
                       candidates |-> IdentifyCandidates(text),
                       medications |->
                           ValidateCandidates(IdentifyCandidates(text),
                                              api_result, text)])
    /\ cache' = cache \cup CacheKeys(IdentifyCandidates(text), medical_context)
    /\ UNCHANGED <<now, connVars, sessionVars, callVars, turnVars, scored,
                   specialties, resolved, v1Vars>>

ValidatedNext ==
    \E text \in ExtractTexts, api_result \in LookupResults :
        ExtractValidatedMedications(text, "general", api_result)

SpecValidated == Init /\ [][ValidatedNext]_vars

\* no two entries of the list have the same term and strategy
UniquePerTermAndStrategy(list) ==
    \A i, j \in DOMAIN list :
        (list[i].term = list[j].term /\ list[i].strategy = list[j].strategy)
           => i = j

\* the positions of the list never decrease
OrderedByPosition(list) ==
    \A i, j \in DOMAIN list : i < j => list[i].position <= list[j].position

\* C26: the medication list returned by extract_medications is ordered by
\* non-decreasing position in the text and holds no two entries with the
\* same term and strategy, the candidates being unique per term and
\* strategy.
C26_OrderedAndDeduplicated ==
    \A n \in DOMAIN runs :
        /\ UniquePerTermAndStrategy(runs[n].candidates)
        /\ UniquePerTermAndStrategy(runs[n].medications)
        /\ OrderedByPosition(runs[n].medications)

(***************************************************************************)
(* The components of ConfidenceScorer.calculate_confidence                 *)
(***************************************************************************)
\* the candidate was produced by a suffix pattern of _extract_by_patterns
SuffixPatternFired(candidate) == candidate.strategy = "pattern_match"

\* C27: for every candidate and catalog record each component of
\* calculate_confidence stays within its cap: catalog-match richness at
\* most 0.4, context words at most 0.2, position and length at most 0.1,
\* pattern bonus at most 0.15 and above 0 whenever a suffix pattern fired,
\* and the sum at most 1.0.
C27_ComponentsWithinCaps ==
    scored.path /= "none"
       => /\ CalculateApiConfidence(scored.info) <= 4000
          /\ CalculateContextConfidence(scored.candidate) <= 2000
          /\ CalculatePositionConfidence(scored.candidate, scored.word_count)
                <= 1000
          /\ CalculatePatternConfidence(scored.candidate) <= 1500
          /\ SuffixPatternFired(scored.candidate)
                => CalculatePatternConfidence(scored.candidate) > 0
          /\ CalculateConfidence(scored.candidate, scored.info,
                                 scored.word_count) <= FullConfidence

(***************************************************************************)
(* SpecSummary: the turns of two roles of one session and their summary    *)
(* tasks, which may raise while building the summary                       *)
(***************************************************************************)
SummaryNext ==
    \/ \E w \in Sockets : HandleWebsocketConnection(w, DuoSession, SoloRole[w])
    \/ \E w \in Sockets : ClientClose(w)
    \/ \E w \in Sockets :
           ReceiveTranscriptionWithin(w, "hola", "en", MaxSoloTurns)
    \/ \E w \in Sockets : TurnSteps(w)
    \/ \E task \in tasks, raised \in BOOLEAN : SummaryTask(task, raised)

SpecSummary == Init /\ [][SummaryNext]_vars

\* log is log2 or a beginning of it
IsPrefix(log, log2) ==
    Len(log) <= Len(log2) /\ SubSeq(log2, 1, Len(log)) = log

\* the summary task runs in this step
SummaryStep(task) == task \in tasks /\ task \notin tasks'

\* C28: the summary of a turn is computed and broadcast by a task scheduled
\* after the turn's other steps; an exception while building or sending it
\* neither prevents nor undoes the transcript, alert, translation and TTS
\* messages of the turn and does not reach the turn's coroutine.
C28_SummaryFailureHarmless ==
    [][/\ \A w \in Sockets :
             (Stage(w) = "summary" /\ turn'[w] /= turn[w])
                => /\ turn_log'[turn[w].id].done
                   /\ \E task \in tasks' \ tasks : task.turn = turn[w].id
       /\ \A task \in tasks :
             SummaryStep(task)
                => /\ turn_log[task.turn].done
                   /\ \A m \in Sockets : IsPrefix(sent[m], sent'[m])
                   /\ \A m \in Sockets :
                         \A i \in DOMAIN sent'[m] :
                             i > Len(sent[m])
                                => sent'[m][i].message_type
                                      = "conversation_summary"
                   /\ UNCHANGED <<pc, turn, turn_log>>
      ]_vars

\* a turn has sent its transcript and its translation to a connected
\* client, and its summary task has ended without sending a summary
C28_Witness ==
    \E m \in Sockets : \E t \in DOMAIN turn_log :
        /\ turn_log[t].done /\ turn_log[t].ws = m /\ ws_open[m]
        /\ \A task \in tasks : task.turn /= t
        /\ \E i \in DOMAIN sent[m] :
              sent[m][i].turn = t /\ sent[m][i].message_type = "translation"
        /\ \E i \in DOMAIN sent[m] :
              /\ sent[m][i].turn = t
              /\ sent[m][i].message_type = "streaming_transcription"
        /\ \A i \in DOMAIN sent[m] :
              sent[m][i].turn = t
                 => sent[m][i].message_type /= "conversation_summary"

(***************************************************************************)
(* The segmenter state at the returns of process_audio_chunk (SpecSeg)     *)
(***************************************************************************)
\* the recording state and the buffer of session s agree
Consistent(s) ==
    /\ ~state[s].is_recording
          => buffer[s] = EmptyBuffer /\ state[s].last_speech_time = None
    /\ state[s].is_recording => state[s].last_speech_time /= None
    /\ ~state[s].is_processing

\* C29: for a session fed by a single ingestion path, at every return of
\* process_audio_chunk: not recording implies an empty buffer and no
\* last_speech_time, recording implies a last_speech_time, and
\* is_processing is false.
C29_StateConsistentAtReturn ==
    \A w \in SegSockets :
        (pc[w] = "returned" /\ sess[w] \in started) => Consistent(sess[w])

\* a finalization of buffered speech has returned its transcription, with
\* the recording over and the buffer cleared
C29_Witness ==
    \E w \in SegSockets :
        /\ pc[w] = "returned" /\ sess[w] \in started
        /\ ret[w].kind = "stt" /\ ret[w].samples > 0
        /\ ~state[sess[w]].is_recording
        /\ buffer[sess[w]] = EmptyBuffer

(***************************************************************************)
(* SpecCast: the broadcasts of both managers.  /api/v1 accepts the ids it  *)
(* has issued; /api/v2 accepts any id, here one that is a prefix of the    *)
(* other.                                                                  *)
(***************************************************************************)
CastNext ==
    \/ \E session_id \in Uuids : CreateConversationSession(session_id)
    \/ \E w \in Sockets, session_id \in Uuids, r \in Roles :
           WebsocketEndpoint(w, session_id, r)
    \/ \E w \in Sockets : ClientClose(w)
    \/ \E w \in Sockets : DisconnectWebsocket(w)
    \/ \E w \in Sockets : HandleTranscription(w, "hola")
    \/ \E w \in Sockets : BroadcastSend(w)
    \/ \E w \in Sockets, raised \in BOOLEAN : BroadcastDone(w, raised)
    \/ \E session_id \in Uuids : EndConversationSession(session_id)
    \/ \E w \in Sockets, session_id \in SessionIds, r \in Roles :
           HandleWebsocketConnection(w, session_id, r)
    \/ \E w \in Sockets : ReceiveTranscription(w, "hola", "en")
    \/ \E w \in Sockets : TurnSteps(w)
    \/ \E task \in tasks : UpdateConversationSummary(task)

SpecCast == Init /\ [][CastNext]_vars

\* C30: a broadcast for a session is sent only to channels that were
\* connected under that session id; no message of one accepted session
\* reaches a channel registered under another, although the recipients are
\* chosen by the prefix of the connection key.
C30_BroadcastStaysInSession ==
    /\ \A i \in DOMAIN v1_sent :
          sess[v1_sent[i].to] = v1_sent[i].session_id
    /\ \A m \in Sockets : \A i \in DOMAIN sent[m] :
          sess[sent[m][i].to] = sent[m][i].session_id

\* channels of two accepted sessions are registered and connected, and a
\* transcription of one of the sessions has then been broadcast
C30_Witness ==
    \E i, j \in DOMAIN v1_sent :
        /\ j < i
        /\ v1_sent[i].message_type = "transcription"
        /\ v1_sent[j].message_type = "system_status"
        /\ v1_sent[j].session_id /= v1_sent[i].session_id
        /\ ws_open[v1_sent[j].to]
        /\ \E k \in DOMAIN v1_connections :
              v1_connections[k][2] = v1_sent[j].to

=============================================================================
